---- MODULE Spec2Model ----
(***************************************************************************)
(* The middle tier of the racoon compiler: the Type Checker (semantic      *)
(* analysis and constant folding, in place on the syntax tree) followed by *)
(* the IR Builder (lowering of the checked tree to a control-flow graph).  *)
(*                                                                         *)
(* Both phases are recursive tree visitors.  The recursion over            *)
(* statements is modelled with an explicit continuation stack `kont`: a    *)
(* handler that calls visit_stmt on a child pushes the child's frame and,  *)
(* under it, a frame that holds the handler's local variables and resumes  *)
(* the handler where the call returns.  Exactly one action is enabled in   *)
(* every running state, so a run of the model is the run of the visitor.   *)
(* Expressions and declarations are visited by recursive operators.        *)
(***************************************************************************)
EXTENDS Integers, Sequences, FiniteSets, TLC

VARIABLES
    program,          \* the syntax tree; the Type Checker mutates it in place
    phase,            \* which visitor is running: see Phases
    kont,             \* the pending visitor calls (innermost first)
    scopes,           \* TypeChecker.scopes: ScopeBuilder<TyInfo>
    cur_func_ret_ty,  \* TypeChecker.cur_func_ret_ty
    tc_result,        \* the result of TypeChecker::visit_program
    pass,             \* 1: first run of the Type Checker, 2: a run on its own output
    folded,           \* the tree as the first Type Checker run left it
    ctx,              \* IrBuilder.ctx: scope_builder, cur_module, cur_func, cur_bb
    loop_targets,     \* IrBuilder.loop_targets
    ib_result,        \* the result of IrBuilder::visit
    overflow_checks,  \* the build profile, once a run has depended on it
    call              \* the last call made on a component driven on its own
                      \* (the Scope Table, AstTy equality), with what it returned

vars == <<program, phase, kont, scopes, cur_func_ret_ty, tc_result, pass, folded,
          ctx, loop_targets, ib_result, overflow_checks, call>>

-----------------------------------------------------------------------------
(* Option<T> is a sequence of length 0 (None) or 1 (Some).                 *)
None == <<>>
Some(x) == <<x>>
IsSome(o) == o # <<>>
Unwrap(o) == o[1]

(* Result values: "Ok", one SemanticError kind, or "abort" for a panic     *)
(* (unreachable!, a failed unwrap, an arithmetic panic).                   *)
SemanticErrors ==
    {"UnknownName", "DuplicateName", "TypeMismatch", "RequireConstant",
     "TooMuchElement", "IllegalArrayDim", "CannotModifyConstValue",
     "RequireLValue", "ExpectedFunction", "BreakOutsideLoop",
     "ContinueOutsideLoop"}

-----------------------------------------------------------------------------
(* 32-bit integer arithmetic.                                              *)
MaxI32 == 2147483647
MinI32 == -2147483647 - 1

Abs(x) == IF x < 0 THEN -x ELSE x
Sgn(x) == IF x < 0 THEN -1 ELSE IF x > 0 THEN 1 ELSE 0

AddOverflows(l, r) == \/ (r > 0 /\ l > MaxI32 - r)
                      \/ (r < 0 /\ l < MinI32 - r)
(* l + r modulo 2^32, in two's complement. *)
WrappingAdd(l, r) ==
    IF r > 0 /\ l > MaxI32 - r THEN ((l - MaxI32) - 1) + ((r - MaxI32) - 1)
    ELSE IF r < 0 /\ l < MinI32 - r THEN ((l - MinI32) + (r - MinI32))
    ELSE l + r
WrappingNeg(x) == IF x = MinI32 THEN MinI32 ELSE -x
SubOverflows(l, r) == \/ (r < 0 /\ l > MaxI32 + r)
                      \/ (r > 0 /\ l < MinI32 + r)
WrappingSub(l, r) ==
    IF r = MinI32 THEN WrappingAdd(WrappingAdd(l, MaxI32), 1)
    ELSE WrappingAdd(l, -r)

(* l * r modulo 2^32 by shift-and-add over the two's complement bits of r. *)
RECURSIVE MulLoop(_, _, _, _)
MulLoop(acc, shifted, r, i) ==
    IF i = 31 THEN (IF r < 0 THEN WrappingAdd(acc, shifted) ELSE acc)
    ELSE MulLoop(IF r % 2 = 1 THEN WrappingAdd(acc, shifted) ELSE acc,
                 WrappingAdd(shifted, shifted),
                 (r - (r % 2)) \div 2,
                 i + 1)
WrappingMul(l, r) == MulLoop(0, l, r, 0)
MulOverflows(l, r) ==
    IF l = 0 \/ r = 0 THEN FALSE
    ELSE IF l = MinI32 THEN r # 1
    ELSE IF r = MinI32 THEN l # 1
    ELSE IF Sgn(l) = Sgn(r) THEN Abs(l) > MaxI32 \div Abs(r)
    ELSE \* the product is negative: |l| * |r| <= 2^31
         /\ Abs(l) > MaxI32 \div Abs(r)
         /\ ~ (Abs(l) = (MaxI32 \div Abs(r)) + 1 /\ MaxI32 % Abs(r) = Abs(r) - 1)

(* The quotient truncated toward zero and the remainder with the sign of   *)
(* the dividend; r is neither 0 nor (l = MinI32 and r = -1).               *)
RECURSIVE TruncDiv(_, _)
TruncDiv(l, r) ==
    IF r = MinI32 THEN (IF l = MinI32 THEN 1 ELSE 0)
    ELSE IF l = MinI32 THEN TruncDiv(l + Abs(r), r) - Sgn(r)
    ELSE Sgn(l) * Sgn(r) * (Abs(l) \div Abs(r))
(* A remainder that is never negative, which is not what `%` computes. *)
TruncRem_floor(l, r) == IF r = MinI32 THEN l ELSE l % Abs(r)
TruncRem(l, r) == l - r * TruncDiv(l, r)

-----------------------------------------------------------------------------
(* AstTy (ast.rs).                                                         *)
TyUnknown == [t |-> "Unknown"]
TyVoid == [t |-> "Void"]
TyInt == [t |-> "Int"]
TyBool == [t |-> "Bool"]
TyFunc(ret_ty, param_tys) == [t |-> "Func", ret_ty |-> ret_ty, param_tys |-> param_tys]
TyArray(siz, elem_ty) == [t |-> "Array", siz |-> siz, elem_ty |-> elem_ty]
TyPtr(elem_ty) == [t |-> "Ptr", elem_ty |-> elem_ty]

(* impl PartialEq for AstTy: the arms in the order of the match.           *)
RECURSIVE AstTy_eq(_, _)
RECURSIVE AstTy_vec_eq(_, _)
AstTy_vec_eq(xs, ys) ==
    /\ Len(xs) = Len(ys)
    /\ \A i \in 1..Len(xs) : AstTy_eq(xs[i], ys[i])
AstTy_eq(x, y) ==
    IF \/ (x.t = "Unknown" /\ y.t = "Unknown")
       \/ (x.t = "Void" /\ y.t = "Void")
       \/ (x.t = "Int" /\ y.t = "Int")
    THEN TRUE
    ELSE IF x.t = "Func" /\ y.t = "Func"
    THEN AstTy_eq(x.ret_ty, y.ret_ty) /\ AstTy_vec_eq(x.param_tys, y.param_tys)
    ELSE IF x.t = "Array" /\ y.t = "Array"
    THEN x.siz = y.siz /\ AstTy_eq(x.elem_ty, y.elem_ty)
    ELSE IF x.t \in {"Ptr", "Array"} /\ y.t \in {"Ptr", "Array"}
    THEN AstTy_eq(x.elem_ty, y.elem_ty)
    ELSE FALSE

(* assert_type_eq (type_checker.rs): Ok or TypeMismatch.                   *)
assert_type_eq(expected, found) ==
    IF ~ AstTy_eq(expected, found) THEN "TypeMismatch" ELSE "Ok"

-----------------------------------------------------------------------------
(* The Scope Table (context.rs): a stack of name -> T maps, innermost last. *)
Scope_new == << >>
Scope_find(scope, name) ==
    IF name \in DOMAIN scope THEN Some(scope[name]) ELSE None
(* A faulty variant, against which the insert properties are measured: an *)
(* occupied entry is overwritten.                                         *)
Scope_insert_overwrite(scope, name, value) ==
    [ok |-> TRUE, scope |-> (name :> value) @@ scope]
(* Scope::insert: [ok, scope]; an occupied entry is left as it is. *)
Scope_insert(scope, name, value) ==
    IF name \in DOMAIN scope
    THEN [ok |-> FALSE, scope |-> scope]
    ELSE [ok |-> TRUE, scope |-> (name :> value) @@ scope]

ScopeBuilder_new == << >>
push_scope(sb) == Append(sb, Scope_new)
pop_scope(sb) == IF sb = << >> THEN sb ELSE SubSeq(sb, 1, Len(sb) - 1)
RECURSIVE find_rev(_, _, _)
find_rev(sb, name, i) ==
    IF i = 0 THEN None
    ELSE IF IsSome(Scope_find(sb[i], name)) THEN Scope_find(sb[i], name)
    ELSE find_rev(sb, name, i - 1)
(* A faulty variant, against which the lookup properties are measured: the *)
(* outermost binding is found first.                                       *)
RECURSIVE find_fwd(_, _, _)
find_fwd(sb, name, i) ==
    IF i > Len(sb) THEN None
    ELSE IF IsSome(Scope_find(sb[i], name)) THEN Scope_find(sb[i], name)
    ELSE find_fwd(sb, name, i + 1)
find_name_outermost(sb, name) == find_fwd(sb, name, 1)
find_name_rec(sb, name) == find_rev(sb, name, Len(sb))
(* ScopeBuilder::insert: into the last scope; panics on an empty stack     *)
(* (expect "No scope found"), which no caller reaches.                     *)
ScopeBuilder_insert(sb, name, id) ==
    LET r == Scope_insert(sb[Len(sb)], name, id)
    IN  [ok |-> r.ok, sb |-> [sb EXCEPT ![Len(sb)] = r.scope]]

-----------------------------------------------------------------------------
(* The syntax tree (ast.rs).  Every node is a record; spans are left out:  *)
(* no visitor reads one except to copy it.                                 *)
(*   Expr  : e \in {"LVal", "Assign", "Literal", "Unary", "Binary", "Call"} *)
(*   Stmt  : node \in {"Expr", "Block", "If", "While", "Break", "Continue", *)
(*           "Return", "Empty"}; a BlockItem::Decl is a node "Decl"        *)
LVal(ident, subs) ==
    [e |-> "LVal", ident |-> ident, subs |-> subs, ty |-> TyUnknown, is_lvalue |-> FALSE]
AssignExpr(lhs, rhs) == [e |-> "Assign", lhs |-> lhs, rhs |-> rhs, ty |-> TyUnknown]
LiteralInteger(val, ty) == [e |-> "Literal", kind |-> "Integer", val |-> val, ty |-> ty]
LiteralArray(siz, vals, ty) ==
    [e |-> "Literal", kind |-> "Array", siz |-> siz, vals |-> vals, ty |-> ty]
UnaryExpr(op, sub_expr) == [e |-> "Unary", op |-> op, sub_expr |-> sub_expr, ty |-> TyUnknown]
BinaryExpr(op, lhs, rhs) ==
    [e |-> "Binary", op |-> op, lhs |-> lhs, rhs |-> rhs, ty |-> TyUnknown]
CallExpr(func, args) == [e |-> "Call", func |-> func, args |-> args, ty |-> TyUnknown]

UnaryOps == {"Neg", "Pos", "Not"}
ArithOps == {"Add", "Sub", "Mul", "Div", "Mod"}
CompareOps == {"Lt", "Le", "Gt", "Ge", "Eq", "Ne"}
LogicOps == {"And", "Or"}
BinaryOps == ArithOps \cup CompareOps \cup LogicOps

InitValExpr(expr) == [kind |-> "Expr", expr |-> expr, ty |-> TyUnknown]
InitValArray(vals) == [kind |-> "ArrayVal", vals |-> vals, ty |-> TyUnknown]
InitValConst(literal, ty) == [kind |-> "Const", literal |-> literal, ty |-> ty]
SubDecl(ident, subs, init_val) ==
    [ident |-> ident, subs |-> subs, init_val |-> init_val, ty |-> TyUnknown]
Decl(is_const, ty_ident, sub_decls) ==
    [node |-> "Decl", is_const |-> is_const, ty_ident |-> ty_ident, sub_decls |-> sub_decls]
FuncParam(ident, subs, ty_ident) ==
    [ident |-> ident, subs |-> subs, ty_ident |-> ty_ident, ty |-> TyUnknown]
BlockStmt(block_items) == [node |-> "Block", block_items |-> block_items]
AstFunc(ident, params, ret_ty_ident, body) ==
    [node |-> "Func", ident |-> ident, params |-> params,
     ret_ty_ident |-> ret_ty_ident, body |-> body]
ExprStmt(expr) == [node |-> "Expr", expr |-> expr]
IfStmt(cond, then_block, else_block) ==
    [node |-> "If", cond |-> cond, then_block |-> then_block, else_block |-> else_block]
WhileStmt(cond, body) == [node |-> "While", cond |-> cond, body |-> body]
BreakStmt == [node |-> "Break"]
ContinueStmt == [node |-> "Continue"]
ReturnStmt(val) == [node |-> "Return", val |-> val]
EmptyStmt == [node |-> "Empty"]
Program(program_items) == [program_items |-> program_items]

(* A place in the tree: the field names and indices from the root.         *)
RECURSIVE NodeAt(_, _)
NodeAt(tree, path) ==
    IF path = << >> THEN tree ELSE NodeAt(tree[Head(path)], Tail(path))
RECURSIVE SetNodeAt(_, _, _)
SetNodeAt(tree, path, new) ==
    IF path = << >> THEN new
    ELSE [tree EXCEPT ![Head(path)] = SetNodeAt(tree[Head(path)], Tail(path), new)]

(* TyInfo (context.rs). *)
TyInfo(ty, const_val, is_const) == [ty |-> ty, const_val |-> const_val, is_const |-> is_const]

-----------------------------------------------------------------------------
(* The Type Checker's expression visitors (type_checker.rs).  Each returns *)
(* [res, expr, lit]: the Result, the node as the visit left it, and the    *)
(* Option<LiteralExpr> of an Ok.  `oc` tells whether the build checks      *)
(* arithmetic overflow (a debug build panics where a release build wraps). *)
ExprResult(res, expr, lit) == [res |-> res, expr |-> expr, lit |-> lit]

(* visit_binary_expr's `match op` on two integer literals: [res, val]. *)
fold_binary(op, lval, rval, oc) ==
    LET ok(v) == [res |-> "Ok", val |-> v]
        abort == [res |-> "abort", val |-> 0]
        from(b) == IF b THEN 1 ELSE 0
    IN  CASE op = "Add" -> IF AddOverflows(lval, rval) /\ oc THEN abort
                           ELSE ok(WrappingAdd(lval, rval))
          [] op = "Sub" -> IF SubOverflows(lval, rval) /\ oc THEN abort
                           ELSE ok(WrappingSub(lval, rval))
          [] op = "Mul" -> IF MulOverflows(lval, rval) /\ oc THEN abort
                           ELSE ok(WrappingMul(lval, rval))
          [] op = "Div" -> IF rval = 0 \/ (lval = MinI32 /\ rval = -1) THEN abort
                           ELSE ok(TruncDiv(lval, rval))
          [] op = "Mod" -> IF rval = 0 \/ (lval = MinI32 /\ rval = -1) THEN abort
                           ELSE ok(TruncRem(lval, rval))
          [] op = "Lt" -> ok(from(lval < rval))
          [] op = "Le" -> ok(from(lval <= rval))
          [] op = "Gt" -> ok(from(lval > rval))
          [] op = "Ge" -> ok(from(lval >= rval))
          [] op = "Eq" -> ok(from(lval = rval))
          [] op = "Ne" -> ok(from(lval # rval))
          [] op = "And" -> ok(from(lval # 0 /\ rval # 0))
          [] op = "Or" -> ok(from(lval # 0 \/ rval # 0))

binary_legal(lty, rty, op) ==
    IF lty.t = "Int" /\ rty.t = "Int" THEN op \in ArithOps \cup CompareOps
    ELSE IF lty.t = "Bool" /\ rty.t = "Bool" THEN op \in LogicOps
    ELSE FALSE
binary_result_ty(op) == IF op \in ArithOps THEN TyInt ELSE TyBool

RECURSIVE TypeChecker_visit_expr(_, _, _)
RECURSIVE TypeChecker_visit_lexpr(_, _, _, _)
RECURSIVE visit_lexpr_subs(_, _, _, _, _)
RECURSIVE visit_call_args(_, _, _, _)

(* visit_literal_expr *)
TypeChecker_visit_literal_expr(expr) ==
    IF expr.kind = "Integer"
    THEN LET lit == [expr EXCEPT !.ty = TyInt] IN ExprResult("Ok", lit, Some(lit))
    ELSE ExprResult("abort", expr, None)

(* The loop of visit_lexpr over the subscripts, from the i-th on:          *)
(* [res, subs, cur_ty].                                                    *)
visit_lexpr_subs(sc, subs, i, cur_ty, oc) ==
    IF i > Len(subs) THEN [res |-> "Ok", subs |-> subs, cur_ty |-> cur_ty]
    ELSE LET visited(r) ==
                 LET subs1 == [subs EXCEPT ![i] = r.expr] IN
                 IF r.res # "Ok" THEN [res |-> r.res, subs |-> subs1, cur_ty |-> cur_ty]
                 ELSE IF r.expr.ty.t # "Int"
                 THEN [res |-> "TypeMismatch", subs |-> subs1, cur_ty |-> cur_ty]
                 ELSE IF cur_ty.t \in {"Array", "Ptr"}
                 THEN visit_lexpr_subs(sc, subs1, i + 1, cur_ty.elem_ty, oc)
                 ELSE [res |-> "TypeMismatch", subs |-> subs1, cur_ty |-> cur_ty]
         IN  visited(TypeChecker_visit_expr(sc, subs[i], oc))

(* visit_lexpr *)
TypeChecker_visit_lexpr(sc, expr, is_lvalue, oc) ==
    IF expr.e # "LVal" THEN ExprResult("RequireLValue", expr, None)
    ELSE
    LET found == find_name_rec(sc, expr.ident) IN
    IF ~ IsSome(found) THEN ExprResult("UnknownName", expr, None)
    ELSE
    LET ty_info == Unwrap(found) IN
    IF ty_info.is_const /\ is_lvalue
    THEN ExprResult("CannotModifyConstValue", expr, None)
    ELSE
    LET lval1 == [expr EXCEPT !.is_lvalue = is_lvalue, !.ty = ty_info.ty]
        literal == IF ty_info.is_const /\ ty_info.ty.t # "Array"
                   THEN ty_info.const_val ELSE None
        indexed(s) ==
            LET lval2 == [lval1 EXCEPT !.subs = Some(s.subs)] IN
            IF s.res # "Ok" THEN ExprResult(s.res, lval2, None)
            ELSE ExprResult("Ok", [lval2 EXCEPT !.ty = s.cur_ty], literal)
    IN  IF ~ IsSome(expr.subs) THEN ExprResult("Ok", lval1, literal)
        ELSE indexed(visit_lexpr_subs(sc, Unwrap(expr.subs), 1, ty_info.ty, oc))

(* An assignment that visits its left-hand side as a value that is read. *)
TypeChecker_visit_assign_expr_as_read(sc, expr, oc) ==
    LET rhs(l, r) ==
            LET e2 == [expr EXCEPT !.lhs = l.expr,
                                   !.rhs = IF r.res = "Ok" /\ IsSome(r.lit)
                                           THEN Unwrap(r.lit) ELSE r.expr]
            IN  IF r.res # "Ok" THEN ExprResult(r.res, e2, None)
                ELSE IF l.expr.ty.t \notin {"Int", "Bool"}
                THEN ExprResult("TypeMismatch", e2, None)
                ELSE ExprResult("Ok", e2, r.lit)
        lhs(l) ==
            IF l.res # "Ok" THEN ExprResult(l.res, [expr EXCEPT !.lhs = l.expr], None)
            ELSE rhs(l, TypeChecker_visit_expr(sc, expr.rhs, oc))
    IN  lhs(TypeChecker_visit_lexpr(sc, expr.lhs, FALSE, oc))

(* visit_assign_expr: the node's own ty is never assigned. *)
TypeChecker_visit_assign_expr(sc, expr, oc) ==
    LET rhs(l, r) ==
            LET e2 == [expr EXCEPT !.lhs = l.expr,
                                   !.rhs = IF r.res = "Ok" /\ IsSome(r.lit)
                                           THEN Unwrap(r.lit) ELSE r.expr]
            IN  IF r.res # "Ok" THEN ExprResult(r.res, e2, None)
                ELSE IF l.expr.ty.t \notin {"Int", "Bool"}
                THEN ExprResult("TypeMismatch", e2, None)
                ELSE ExprResult("Ok", e2, r.lit)
        lhs(l) ==
            IF l.res # "Ok" THEN ExprResult(l.res, [expr EXCEPT !.lhs = l.expr], None)
            ELSE rhs(l, TypeChecker_visit_expr(sc, expr.rhs, oc))
    IN  lhs(TypeChecker_visit_lexpr(sc, expr.lhs, TRUE, oc))

(* visit_unary_expr *)
TypeChecker_visit_unary_expr(sc, expr, oc) ==
    LET visited(s) ==
            LET sub1 == IF s.res = "Ok" /\ IsSome(s.lit) THEN Unwrap(s.lit) ELSE s.expr
                e1 == [expr EXCEPT !.sub_expr = sub1]
                sub_expr_ty == sub1.ty
            IN  IF s.res # "Ok" THEN ExprResult(s.res, e1, None)
                ELSE
                CASE expr.op = "Neg" ->
                       IF sub_expr_ty.t # "Int" THEN ExprResult("TypeMismatch", e1, None)
                       ELSE LET e2 == [e1 EXCEPT !.ty = TyInt] IN
                            IF ~ IsSome(s.lit) THEN ExprResult("Ok", e2, None)
                            ELSE IF Unwrap(s.lit).val = MinI32 /\ oc
                            THEN ExprResult("abort", e2, None)
                            ELSE ExprResult("Ok", e2,
                                     Some(LiteralInteger(WrappingNeg(Unwrap(s.lit).val),
                                                         TyInt)))
                  [] expr.op = "Pos" ->
                       IF sub_expr_ty.t # "Int" THEN ExprResult("TypeMismatch", e1, None)
                       ELSE ExprResult("Ok", [e1 EXCEPT !.ty = TyInt], s.lit)
                  [] expr.op = "Not" ->
                       IF sub_expr_ty.t \notin {"Int", "Bool"}
                       THEN ExprResult("TypeMismatch", e1, None)
                       ELSE LET e2 == [e1 EXCEPT !.ty = sub_expr_ty] IN
                            IF ~ IsSome(s.lit) THEN ExprResult("Ok", e2, None)
                            ELSE ExprResult("Ok", e2,
                                     Some(LiteralInteger(
                                         IF Unwrap(s.lit).val # 0 THEN 1 ELSE 0, e2.ty)))
    IN  visited(TypeChecker_visit_expr(sc, expr.sub_expr, oc))

(* visit_binary_expr *)
TypeChecker_visit_binary_expr(sc, expr, oc) ==
    LET folded_by(e2, result_ty, f) ==
            IF f.res # "Ok" THEN ExprResult(f.res, e2, None)
            ELSE ExprResult("Ok", e2, Some(LiteralInteger(f.val, result_ty)))
        both(l, r) ==
            IF r.res # "Ok"
            THEN ExprResult(r.res, [expr EXCEPT !.lhs = l.expr, !.rhs = r.expr], None)
            ELSE
            LET op == expr.op
                lhs == IF IsSome(l.lit) THEN Unwrap(l.lit) ELSE l.expr
                rhs == IF IsSome(r.lit) THEN Unwrap(r.lit) ELSE r.expr
                e1 == [expr EXCEPT !.lhs = lhs, !.rhs = rhs]
            IN  IF ~ binary_legal(lhs.ty, rhs.ty, op)
                THEN ExprResult("TypeMismatch", e1, None)
                ELSE
                LET result_ty == binary_result_ty(op)
                    e2 == [e1 EXCEPT !.ty = result_ty]
                IN  IF /\ lhs.e = "Literal" /\ lhs.kind = "Integer"
                       /\ rhs.e = "Literal" /\ rhs.kind = "Integer"
                    THEN folded_by(e2, result_ty, fold_binary(op, lhs.val, rhs.val, oc))
                    ELSE ExprResult("Ok", e2, None)
        left(l) ==
            IF l.res # "Ok" THEN ExprResult(l.res, [expr EXCEPT !.lhs = l.expr], None)
            ELSE both(l, TypeChecker_visit_expr(sc, expr.rhs, oc))
    IN  left(TypeChecker_visit_expr(sc, expr.lhs, oc))

(* The first loop of visit_call_expr: [res, args]. *)
visit_call_args(sc, args, i, oc) ==
    IF i > Len(args) THEN [res |-> "Ok", args |-> args]
    ELSE LET visited(r) ==
                 LET args1 == [args EXCEPT ![i] = r.expr] IN
                 IF r.res # "Ok" THEN [res |-> r.res, args |-> args1]
                 ELSE visit_call_args(sc, args1, i + 1, oc)
         IN  visited(TypeChecker_visit_expr(sc, args[i], oc))

(* The zip of the arguments' types with the parameter types: it ends with  *)
(* the shorter of the two.                                                 *)
zip_type_eq(args, param_tys) ==
    LET n == IF Len(args) < Len(param_tys) THEN Len(args) ELSE Len(param_tys)
    IN  IF \E i \in 1..n : ~ AstTy_eq(args[i].ty, param_tys[i])
        THEN "TypeMismatch" ELSE "Ok"

(* visit_call_expr *)
TypeChecker_visit_call_expr(sc, expr, oc) ==
    LET found == find_name_rec(sc, expr.func)
        visited(a) ==
            LET e1 == [expr EXCEPT !.args = a.args] IN
            IF a.res # "Ok" THEN ExprResult(a.res, e1, None)
            ELSE IF ~ IsSome(found) THEN ExprResult("UnknownName", e1, None)
            ELSE IF Unwrap(found).ty.t # "Func"
            THEN ExprResult("ExpectedFunction", e1, None)
            ELSE IF zip_type_eq(a.args, Unwrap(found).ty.param_tys) # "Ok"
            THEN ExprResult("TypeMismatch", e1, None)
            ELSE ExprResult("Ok", [e1 EXCEPT !.ty = Unwrap(found).ty.ret_ty], None)
    IN  visited(visit_call_args(sc, expr.args, 1, oc))

(* visit_expr *)
TypeChecker_visit_expr(sc, expr, oc) ==
    CASE expr.e = "LVal" -> TypeChecker_visit_lexpr(sc, expr, FALSE, oc)
      [] expr.e = "Assign" -> TypeChecker_visit_assign_expr(sc, expr, oc)
      [] expr.e = "Literal" -> TypeChecker_visit_literal_expr(expr)
      [] expr.e = "Unary" -> TypeChecker_visit_unary_expr(sc, expr, oc)
      [] expr.e = "Binary" -> TypeChecker_visit_binary_expr(sc, expr, oc)
      [] expr.e = "Call" -> TypeChecker_visit_call_expr(sc, expr, oc)

-----------------------------------------------------------------------------
(* The Type Checker's declaration helpers (type_checker.rs).               *)

(* visit_ty *)
TypeChecker_visit_ty(ty_ident) == IF ty_ident = "int" THEN TyInt ELSE TyVoid

(* The first loop of build_ast_ty, from the i-th subscript on: [res, subs]. *)
RECURSIVE fold_subs(_, _, _, _)
fold_subs(sc, subs, i, oc) ==
    IF i > Len(subs) THEN [res |-> "Ok", subs |-> subs]
    ELSE LET visited(r) ==
                 IF r.res # "Ok" THEN [res |-> r.res, subs |-> [subs EXCEPT ![i] = r.expr]]
                 ELSE IF ~ IsSome(r.lit)
                 THEN [res |-> "RequireConstant", subs |-> [subs EXCEPT ![i] = r.expr]]
                 ELSE IF Unwrap(r.lit).val <= 0
                 THEN [res |-> "IllegalArrayDim", subs |-> [subs EXCEPT ![i] = r.expr]]
                 ELSE fold_subs(sc, [subs EXCEPT ![i] = Unwrap(r.lit)], i + 1, oc)
         IN  visited(TypeChecker_visit_expr(sc, subs[i], oc))

(* The subscripts wrapped in their order, which nests the first innermost. *)
RECURSIVE array_ty_innermost_first(_, _, _)
array_ty_innermost_first(base_ty, subs, i) ==
    IF i > Len(subs) THEN base_ty
    ELSE array_ty_innermost_first(TyArray(subs[i].val, base_ty), subs, i + 1)

(* The second loop of build_ast_ty: the subscripts in reverse. *)
RECURSIVE array_ty_of(_, _, _)
array_ty_of(base_ty, subs, i) ==
    IF i > Len(subs) THEN base_ty
    ELSE TyArray(subs[i].val, array_ty_of(base_ty, subs, i + 1))

(* build_ast_ty: [res, ty, subs]; subs is the Option<Subs> as it is left. *)
build_ast_ty(sc, base_ty, subs, oc) ==
    LET built(f) ==
            IF f.res # "Ok" THEN [res |-> f.res, ty |-> TyUnknown, subs |-> Some(f.subs)]
            ELSE [res |-> "Ok", ty |-> array_ty_of(base_ty, f.subs, 1),
                  subs |-> Some(f.subs)]
    IN  IF ~ IsSome(subs) THEN [res |-> "Ok", ty |-> base_ty, subs |-> subs]
        ELSE built(fold_subs(sc, Unwrap(subs), 1, oc))

(* fix_array_literal: [res, literal]. *)
RECURSIVE fix_array_literal(_, _)
RECURSIVE fix_array_literal_elems(_, _, _)
fix_array_literal_elems(vals, elem_ty, i) ==
    IF i > Len(vals) THEN [res |-> "Ok", vals |-> vals]
    ELSE LET fixed(r) ==
                 IF r.res # "Ok"
                 THEN [res |-> r.res, vals |-> [vals EXCEPT ![i] = r.literal]]
                 ELSE fix_array_literal_elems([vals EXCEPT ![i] = r.literal], elem_ty, i + 1)
         IN  fixed(fix_array_literal(vals[i], elem_ty))
fix_array_literal(literal, expected_ty) ==
    LET fixed(r) ==
            IF r.res # "Ok"
            THEN [res |-> r.res, literal |-> [literal EXCEPT !.vals = r.vals]]
            ELSE [res |-> "Ok",
                  literal |-> [literal EXCEPT !.vals = r.vals,
                                              !.siz = expected_ty.siz,
                                              !.ty = expected_ty]]
    IN  IF literal.kind = "Integer" /\ expected_ty.t = "Int"
        THEN [res |-> "Ok", literal |-> literal]
        ELSE IF literal.kind = "Array" /\ expected_ty.t = "Array"
        THEN IF literal.siz > expected_ty.siz
             THEN [res |-> "TooMuchElement", literal |-> literal]
             ELSE fixed(fix_array_literal_elems(literal.vals, expected_ty.elem_ty, 1))
        ELSE [res |-> assert_type_eq(expected_ty, TyUnknown), literal |-> literal]

(* A loop over the elements that leaves them as they are, unexamined. *)
fix_array_init_val_elems_skipped(vals, elem_ty, i) == [res |-> "Ok", vals |-> vals]

(* fix_array_init_val: [res, init_val]. *)
RECURSIVE fix_array_init_val(_, _)
RECURSIVE fix_array_init_val_elems(_, _, _)
fix_array_init_val_elems(vals, elem_ty, i) ==
    IF i > Len(vals) THEN [res |-> "Ok", vals |-> vals]
    ELSE LET fixed(r) ==
                 IF r.res # "Ok"
                 THEN [res |-> r.res, vals |-> [vals EXCEPT ![i] = r.init_val]]
                 ELSE fix_array_init_val_elems([vals EXCEPT ![i] = r.init_val],
                                               elem_ty, i + 1)
         IN  fixed(fix_array_init_val(vals[i], elem_ty))
fix_array_init_val(init_val, expected_ty) ==
    LET fixed(r) ==
            IF r.res # "Ok"
            THEN [res |-> r.res, init_val |-> [init_val EXCEPT !.vals = r.vals]]
            ELSE [res |-> "Ok",
                  init_val |-> [init_val EXCEPT !.vals = r.vals, !.ty = expected_ty]]
    IN  IF init_val.kind = "Expr"
        THEN [res |-> assert_type_eq(expected_ty, init_val.expr.ty), init_val |-> init_val]
        ELSE IF init_val.kind = "ArrayVal" /\ expected_ty.t = "Array"
        THEN IF Len(init_val.vals) > expected_ty.siz
             THEN [res |-> "TooMuchElement", init_val |-> init_val]
             ELSE fixed(fix_array_init_val_elems(init_val.vals, expected_ty.elem_ty, 1))
        ELSE [res |-> assert_type_eq(expected_ty, TyUnknown), init_val |-> init_val]

(* visit_const_init_val: [res, init_val, literal]. *)
RECURSIVE TypeChecker_visit_const_init_val(_, _, _)
RECURSIVE visit_const_init_vals(_, _, _, _, _)
visit_const_init_vals(sc, vals, i, literals, oc) ==
    IF i > Len(vals) THEN [res |-> "Ok", vals |-> vals, literals |-> literals]
    ELSE LET visited(r) ==
                 LET vals1 == [vals EXCEPT ![i] = r.init_val] IN
                 IF r.res # "Ok"
                 THEN [res |-> r.res, vals |-> vals1, literals |-> literals]
                 ELSE visit_const_init_vals(sc, vals1, i + 1,
                                            Append(literals, r.literal), oc)
         IN  visited(TypeChecker_visit_const_init_val(sc, vals[i], oc))
TypeChecker_visit_const_init_val(sc, init_val, oc) ==
    LET of_expr(r) ==
            IF r.res # "Ok"
            THEN [res |-> r.res, init_val |-> [init_val EXCEPT !.expr = r.expr],
                  literal |-> None]
            ELSE LET iv == [init_val EXCEPT !.expr = r.expr, !.ty = r.expr.ty] IN
                 IF IsSome(r.lit)
                 THEN [res |-> "Ok", init_val |-> iv, literal |-> Unwrap(r.lit)]
                 ELSE [res |-> "RequireConstant", init_val |-> iv, literal |-> None]
        of_vals(r) ==
            LET iv == [init_val EXCEPT !.vals = r.vals] IN
            IF r.res # "Ok" THEN [res |-> r.res, init_val |-> iv, literal |-> None]
            ELSE [res |-> "Ok", init_val |-> iv,
                  literal |-> LiteralArray(Len(r.literals), r.literals, TyUnknown)]
    IN  CASE init_val.kind = "Expr" ->
               of_expr(TypeChecker_visit_expr(sc, init_val.expr, oc))
          [] init_val.kind = "ArrayVal" ->
               of_vals(visit_const_init_vals(sc, init_val.vals, 1, << >>, oc))
          [] OTHER -> [res |-> "abort", init_val |-> init_val, literal |-> None]

(* visit_init_val: [res, init_val]. *)
RECURSIVE TypeChecker_visit_init_val(_, _, _)
RECURSIVE visit_init_vals(_, _, _, _)
visit_init_vals(sc, vals, i, oc) ==
    IF i > Len(vals) THEN [res |-> "Ok", vals |-> vals]
    ELSE LET visited(r) ==
                 LET vals1 == [vals EXCEPT ![i] = r.init_val] IN
                 IF r.res # "Ok" THEN [res |-> r.res, vals |-> vals1]
                 ELSE visit_init_vals(sc, vals1, i + 1, oc)
         IN  visited(TypeChecker_visit_init_val(sc, vals[i], oc))
TypeChecker_visit_init_val(sc, init_val, oc) ==
    LET of_expr(r) ==
            IF r.res # "Ok"
            THEN [res |-> r.res, init_val |-> [init_val EXCEPT !.expr = r.expr]]
            ELSE [res |-> "Ok",
                  init_val |-> [init_val EXCEPT
                                   !.ty = r.expr.ty,
                                   !.expr = IF IsSome(r.lit) THEN Unwrap(r.lit)
                                            ELSE r.expr]]
        of_vals(r) == [res |-> r.res, init_val |-> [init_val EXCEPT !.vals = r.vals]]
    IN  CASE init_val.kind = "Expr" ->
               of_expr(TypeChecker_visit_expr(sc, init_val.expr, oc))
          [] init_val.kind = "ArrayVal" ->
               of_vals(visit_init_vals(sc, init_val.vals, 1, oc))
          [] OTHER -> [res |-> "abort", init_val |-> init_val]

(* One iteration of visit_global_decl's loop: [res, sub_decl, sc]. *)
global_sub_decl(sc, base_ty, is_const, sub_decl, oc) ==
    LET fail(res, sd) == [res |-> res, sub_decl |-> sd, sc |-> sc]
        insert(ty, sd2, c, fixed) ==
            IF fixed.res # "Ok" THEN fail(fixed.res, sd2)
            ELSE
            LET init_val == IF IsSome(sub_decl.init_val)
                            THEN Some(fixed.literal) ELSE None
                sd3 == IF IsSome(sub_decl.init_val)
                       THEN [sd2 EXCEPT !.init_val =
                                Some(InitValConst(fixed.literal, c.init_val.ty))]
                       ELSE sd2
            IN  IF is_const /\ ~ IsSome(init_val) THEN fail("RequireConstant", sd3)
                ELSE [res |-> "Ok",
                      sub_decl |-> [sd3 EXCEPT !.ty = ty],
                      \* the Option that insert returns is dropped
                      sc |-> ScopeBuilder_insert(sc, sub_decl.ident,
                                 TyInfo(ty, IF is_const THEN init_val ELSE None,
                                        is_const)).sb]
        initialised(ty, sd1, c) ==
            LET sd2 == IF IsSome(sub_decl.init_val)
                       THEN [sd1 EXCEPT !.init_val = Some(c.init_val)] ELSE sd1
            IN  IF c.res # "Ok" THEN fail(c.res, sd2)
                ELSE insert(ty, sd2, c,
                         IF ~ IsSome(sub_decl.init_val)
                         THEN [res |-> "Ok", literal |-> None]
                         ELSE IF ty.t = "Int"
                         THEN [res |-> assert_type_eq(ty, c.literal.ty),
                               literal |-> c.literal]
                         ELSE IF ty.t = "Array" THEN fix_array_literal(c.literal, ty)
                         ELSE [res |-> "abort", literal |-> c.literal])
        typed(b) ==
            LET sd1 == [sub_decl EXCEPT !.subs = b.subs] IN
            IF b.res # "Ok" THEN fail(b.res, sd1)
            ELSE initialised(b.ty, sd1,
                     IF IsSome(sub_decl.init_val)
                     THEN TypeChecker_visit_const_init_val(sc, Unwrap(sub_decl.init_val), oc)
                     ELSE [res |-> "Ok", init_val |-> None, literal |-> None])
    IN  typed(build_ast_ty(sc, base_ty, sub_decl.subs, oc))

(* One iteration of visit_decl_stmt's loop: [res, sub_decl, sc]. *)
local_sub_decl(sc, base_ty, is_const, sub_decl, oc) ==
    LET fail(res, sd) == [res |-> res, sub_decl |-> sd, sc |-> sc]
        insert(ty, sd2, fixed) ==
            LET sd3 == IF IsSome(sub_decl.init_val)
                       THEN [sd2 EXCEPT !.init_val = Some(fixed.init_val)] ELSE sd2
            IN  IF fixed.res # "Ok" THEN fail(fixed.res, sd3)
                ELSE IF is_const /\ ~ IsSome(sub_decl.init_val)
                THEN fail("RequireConstant", sd3)
                ELSE [res |-> "Ok",
                      sub_decl |-> [sd3 EXCEPT !.ty = ty],
                      \* the Option that insert returns is dropped
                      sc |-> ScopeBuilder_insert(sc, sub_decl.ident,
                                 TyInfo(ty, None, is_const)).sb]
        initialised(ty, sd1, v) ==
            LET sd2 == IF IsSome(sub_decl.init_val)
                       THEN [sd1 EXCEPT !.init_val = Some(v.init_val)] ELSE sd1
            IN  IF v.res # "Ok" THEN fail(v.res, sd2)
                ELSE insert(ty, sd2,
                         IF ~ IsSome(sub_decl.init_val)
                         THEN [res |-> "Ok", init_val |-> None]
                         ELSE IF ty.t = "Int"
                         THEN [res |-> assert_type_eq(ty, v.init_val.ty),
                               init_val |-> v.init_val]
                         ELSE IF ty.t = "Array" THEN fix_array_init_val(v.init_val, ty)
                         ELSE [res |-> "abort", init_val |-> v.init_val])
        typed(b) ==
            LET sd1 == [sub_decl EXCEPT !.subs = b.subs] IN
            IF b.res # "Ok" THEN fail(b.res, sd1)
            ELSE initialised(b.ty, sd1,
                     IF IsSome(sub_decl.init_val)
                     THEN TypeChecker_visit_init_val(sc, Unwrap(sub_decl.init_val), oc)
                     ELSE [res |-> "Ok", init_val |-> None])
    IN  typed(build_ast_ty(sc, base_ty, sub_decl.subs, oc))

(* The loop of a declaration over its sub_decls, from the i-th on:         *)
(* [res, decl, sc].                                                        *)
RECURSIVE global_sub_decls(_, _, _, _, _)
global_sub_decls(sc, base_ty, decl, i, oc) ==
    IF i > Len(decl.sub_decls) THEN [res |-> "Ok", decl |-> decl, sc |-> sc]
    ELSE LET declared(r) ==
                 LET d1 == [decl EXCEPT !.sub_decls[i] = r.sub_decl] IN
                 IF r.res # "Ok" THEN [res |-> r.res, decl |-> d1, sc |-> r.sc]
                 ELSE global_sub_decls(r.sc, base_ty, d1, i + 1, oc)
         IN  declared(global_sub_decl(sc, base_ty, decl.is_const, decl.sub_decls[i], oc))
RECURSIVE local_sub_decls(_, _, _, _, _)
local_sub_decls(sc, base_ty, decl, i, oc) ==
    IF i > Len(decl.sub_decls) THEN [res |-> "Ok", decl |-> decl, sc |-> sc]
    ELSE LET declared(r) ==
                 LET d1 == [decl EXCEPT !.sub_decls[i] = r.sub_decl] IN
                 IF r.res # "Ok" THEN [res |-> r.res, decl |-> d1, sc |-> r.sc]
                 ELSE local_sub_decls(r.sc, base_ty, d1, i + 1, oc)
         IN  declared(local_sub_decl(sc, base_ty, decl.is_const, decl.sub_decls[i], oc))

(* visit_global_decl and visit_decl_stmt: [res, decl, sc]. *)
TypeChecker_visit_global_decl(sc, decl, oc) ==
    global_sub_decls(sc, TypeChecker_visit_ty(decl.ty_ident), decl, 1, oc)
TypeChecker_visit_decl_stmt(sc, decl, oc) ==
    local_sub_decls(sc, TypeChecker_visit_ty(decl.ty_ident), decl, 1, oc)

(* visit_func_param: [res, param]. *)
TypeChecker_visit_func_param(sc, param, oc) ==
    LET typed(b) ==
            LET p1 == [param EXCEPT !.subs = b.subs] IN
            IF b.res # "Ok" THEN [res |-> b.res, param |-> p1]
            ELSE [res |-> "Ok",
                  param |-> [p1 EXCEPT !.ty = IF IsSome(param.subs) THEN TyPtr(b.ty)
                                               ELSE b.ty]]
    IN  typed(build_ast_ty(sc, TypeChecker_visit_ty(param.ty_ident), param.subs, oc))

(* push_built_in_funcs (type_checker.rs) *)
(* A table in which putarray returns nothing, unlike the one registered. *)
TypeChecker_built_in_funcs_void_putarray ==
    << [name |-> "getint", ret_ty |-> TyInt, param_tys |-> << >>],
       [name |-> "getch", ret_ty |-> TyInt, param_tys |-> << >>],
       [name |-> "getarray", ret_ty |-> TyInt, param_tys |-> <<TyPtr(TyInt)>>],
       [name |-> "putint", ret_ty |-> TyVoid, param_tys |-> <<TyInt>>],
       [name |-> "putch", ret_ty |-> TyVoid, param_tys |-> <<TyInt>>],
       [name |-> "putarray", ret_ty |-> TyVoid, param_tys |-> <<TyInt, TyPtr(TyInt)>>] >>
TypeChecker_built_in_funcs ==
    << [name |-> "getint", ret_ty |-> TyInt, param_tys |-> << >>],
       [name |-> "getch", ret_ty |-> TyInt, param_tys |-> << >>],
       [name |-> "getarray", ret_ty |-> TyInt, param_tys |-> <<TyPtr(TyInt)>>],
       [name |-> "putint", ret_ty |-> TyVoid, param_tys |-> <<TyInt>>],
       [name |-> "putch", ret_ty |-> TyVoid, param_tys |-> <<TyInt>>],
       [name |-> "putarray", ret_ty |-> TyInt, param_tys |-> <<TyInt, TyPtr(TyInt)>>] >>
RECURSIVE TypeChecker_push_from(_, _)
TypeChecker_push_from(sc, i) ==
    IF i > Len(TypeChecker_built_in_funcs) THEN sc
    ELSE TypeChecker_push_from(
             ScopeBuilder_insert(sc, TypeChecker_built_in_funcs[i].name,
                 TyInfo(TyFunc(TypeChecker_built_in_funcs[i].ret_ty, TypeChecker_built_in_funcs[i].param_tys),
                        None, FALSE)).sb,
             i + 1)
TypeChecker_push_built_in_funcs(sc) == TypeChecker_push_from(sc, 1)

-----------------------------------------------------------------------------
(* The continuation stack.  A frame names the pending call (op) and the    *)
(* place of its node in the tree (path); the frames that resume a handler  *)
(* of the IR Builder also hold that handler's local variables.             *)
Frame(op, path) == [op |-> op, path |-> path]
Top == Head(kont)
TopNode == NodeAt(program, Top.path)
(* The frames of the calls a try_for_each over `seq` at `path` makes. *)
FramesOf(op, path, seq) == [i \in 1..Len(seq) |-> Frame(op, path \o <<i>>)]

(* The build profile: whether arithmetic overflow panics is fixed by the   *)
(* build, so the first visit whose outcome depends on it fixes it for the  *)
(* rest of the run.                                                        *)
Builds == IF overflow_checks = "unset" THEN BOOLEAN ELSE {overflow_checks = "on"}
BuildAfter(depends, oc) ==
    IF depends /\ overflow_checks = "unset"
    THEN (IF oc THEN "on" ELSE "off") ELSE overflow_checks

UnchangedBuilder == UNCHANGED <<ctx, loop_targets, ib_result, call>>

(* An Err leaves the visitor through every pending `?`. *)
TC_Return(res) ==
    /\ tc_result' = res
    /\ kont' = << >>
    /\ phase' = "tc_done"

-----------------------------------------------------------------------------
(* The Type Checker (type_checker.rs), statement by statement.             *)

(* visit_program, up to the loop over the items. *)
TC_VisitProgram ==
    /\ phase = "tc_new"
    /\ scopes' = TypeChecker_push_built_in_funcs(push_scope(scopes))
    /\ kont' = FramesOf("item", <<"program_items">>, program.program_items)
                  \o <<Frame("program_end", << >>)>>
    /\ phase' = "tc"
    /\ tc_result' = "running"
    /\ UNCHANGED <<program, cur_func_ret_ty, pass, folded, overflow_checks>>
    /\ UnchangedBuilder

(* visit_program, after the loop. *)
TC_ProgramEnd ==
    /\ phase = "tc" /\ kont # << >> /\ Top.op = "program_end"
    /\ scopes' = pop_scope(scopes)
    /\ TC_Return("Ok")
    /\ UNCHANGED <<program, cur_func_ret_ty, pass, folded, overflow_checks>>
    /\ UnchangedBuilder

(* visit_global_decl *)
TC_VisitGlobalDecl ==
    /\ phase = "tc" /\ kont # << >> /\ Top.op = "item" /\ TopNode.node = "Decl"
    /\ \E oc \in Builds :
        LET visited(r) ==
            /\ program' = SetNodeAt(program, Top.path, r.decl)
            /\ scopes' = r.sc
            /\ overflow_checks' =
                   BuildAfter(TypeChecker_visit_global_decl(scopes, TopNode, TRUE)
                                # TypeChecker_visit_global_decl(scopes, TopNode, FALSE), oc)
            /\ IF r.res = "Ok"
               THEN kont' = Tail(kont) /\ UNCHANGED <<phase, tc_result>>
               ELSE TC_Return(r.res)
        IN  visited(TypeChecker_visit_global_decl(scopes, TopNode, oc))
    /\ UNCHANGED <<cur_func_ret_ty, pass, folded>>
    /\ UnchangedBuilder

(* The loop of visit_func over the parameters: [res, params]. *)
RECURSIVE visit_func_params(_, _, _, _)
visit_func_params(sc, params, i, oc) ==
    IF i > Len(params) THEN [res |-> "Ok", params |-> params]
    ELSE LET visited(r) ==
                 LET params1 == [params EXCEPT ![i] = r.param] IN
                 IF r.res # "Ok" THEN [res |-> r.res, params |-> params1]
                 ELSE visit_func_params(sc, params1, i + 1, oc)
         IN  visited(TypeChecker_visit_func_param(sc, params[i], oc))

(* The loop of visit_func that registers the parameters: [ok, sc]. *)
RECURSIVE insert_params(_, _, _)
insert_params(sc, params, i) ==
    IF i > Len(params) THEN [ok |-> TRUE, sc |-> sc]
    ELSE LET inserted(r) == IF ~ r.ok THEN [ok |-> FALSE, sc |-> r.sb]
                             ELSE insert_params(r.sb, params, i + 1)
         IN  inserted(ScopeBuilder_insert(sc, params[i].ident,
                                          TyInfo(params[i].ty, None, FALSE)))

(* visit_func up to its call of visit_block_stmt:                          *)
(* [res, ast_func, sc, cur_func_ret_ty].                                   *)
TypeChecker_visit_func(sc, ast_func, oc) ==
    LET ret_ty == TypeChecker_visit_ty(ast_func.ret_ty_ident)
        out(res, params, s) ==
            [res |-> res, ast_func |-> [ast_func EXCEPT !.params = params], sc |-> s,
             cur_func_ret_ty |-> ret_ty]
        registered(p, ps) ==
            IF ~ ps.ok THEN out("DuplicateName", p.params, ps.sc)
            ELSE out("Ok", p.params, ps.sc)
        inserted(p, ins) ==
            IF ~ ins.ok THEN out("DuplicateName", p.params, ins.sb)
            ELSE registered(p, insert_params(push_scope(ins.sb), p.params, 1))
        visited(p) ==
            IF p.res # "Ok" THEN out(p.res, p.params, sc)
            ELSE inserted(p, ScopeBuilder_insert(sc, ast_func.ident,
                                 TyInfo(TyFunc(ret_ty,
                                               [i \in 1..Len(p.params) |-> p.params[i].ty]),
                                        None, FALSE)))
    IN  visited(visit_func_params(sc, ast_func.params, 1, oc))

TC_VisitFunc ==
    /\ phase = "tc" /\ kont # << >> /\ Top.op = "item" /\ TopNode.node = "Func"
    /\ \E oc \in Builds :
        LET visited(r) ==
            /\ program' = SetNodeAt(program, Top.path, r.ast_func)
            /\ scopes' = r.sc
            /\ cur_func_ret_ty' = r.cur_func_ret_ty
            /\ overflow_checks' =
                   BuildAfter(TypeChecker_visit_func(scopes, TopNode, TRUE)
                                # TypeChecker_visit_func(scopes, TopNode, FALSE), oc)
            /\ IF r.res = "Ok"
               THEN /\ kont' = <<Frame("stmt", Top.path \o <<"body">>),
                                 Frame("func_end", Top.path)>> \o Tail(kont)
                    /\ UNCHANGED <<phase, tc_result>>
               ELSE TC_Return(r.res)
        IN  visited(TypeChecker_visit_func(scopes, TopNode, oc))
    /\ UNCHANGED <<pass, folded>>
    /\ UnchangedBuilder

(* visit_func, after visit_block_stmt returned Ok. *)
TC_FuncEnd ==
    /\ phase = "tc" /\ kont # << >> /\ Top.op = "func_end"
    /\ scopes' = pop_scope(scopes)
    /\ kont' = Tail(kont)
    /\ UNCHANGED <<program, phase, cur_func_ret_ty, tc_result, pass, folded,
                   overflow_checks>>
    /\ UnchangedBuilder

TC_AtStmt(kind) ==
    /\ phase = "tc" /\ kont # << >> /\ Top.op = "stmt" /\ TopNode.node = kind

(* visit_block_stmt, up to the loop over the items. *)
TC_VisitBlockStmt ==
    /\ TC_AtStmt("Block")
    /\ scopes' = push_scope(scopes)
    /\ kont' = FramesOf("stmt", Top.path \o <<"block_items">>, TopNode.block_items)
                  \o <<Frame("block_end", Top.path)>> \o Tail(kont)
    /\ UNCHANGED <<program, phase, cur_func_ret_ty, tc_result, pass, folded,
                   overflow_checks>>
    /\ UnchangedBuilder

(* visit_block_stmt, after the loop. *)
TC_BlockEnd ==
    /\ phase = "tc" /\ kont # << >> /\ Top.op = "block_end"
    /\ scopes' = pop_scope(scopes)
    /\ kont' = Tail(kont)
    /\ UNCHANGED <<program, phase, cur_func_ret_ty, tc_result, pass, folded,
                   overflow_checks>>
    /\ UnchangedBuilder

(* visit_decl_stmt *)
TC_VisitDeclStmt ==
    /\ TC_AtStmt("Decl")
    /\ \E oc \in Builds :
        LET visited(r) ==
            /\ program' = SetNodeAt(program, Top.path, r.decl)
            /\ scopes' = r.sc
            /\ overflow_checks' =
                   BuildAfter(TypeChecker_visit_decl_stmt(scopes, TopNode, TRUE)
                                # TypeChecker_visit_decl_stmt(scopes, TopNode, FALSE), oc)
            /\ IF r.res = "Ok"
               THEN kont' = Tail(kont) /\ UNCHANGED <<phase, tc_result>>
               ELSE TC_Return(r.res)
        IN  visited(TypeChecker_visit_decl_stmt(scopes, TopNode, oc))
    /\ UNCHANGED <<cur_func_ret_ty, pass, folded>>
    /\ UnchangedBuilder

(* visit_expr_stmt *)
TC_VisitExprStmt ==
    /\ TC_AtStmt("Expr")
    /\ \E oc \in Builds :
        LET visited(r) ==
            /\ program' = SetNodeAt(program, Top.path \o <<"expr">>, r.expr)
            /\ overflow_checks' =
                   BuildAfter(TypeChecker_visit_expr(scopes, TopNode.expr, TRUE)
                                # TypeChecker_visit_expr(scopes, TopNode.expr, FALSE), oc)
            /\ IF r.res = "Ok"
               THEN kont' = Tail(kont) /\ UNCHANGED <<phase, tc_result>>
               ELSE TC_Return(r.res)
        IN  visited(TypeChecker_visit_expr(scopes, TopNode.expr, oc))
    /\ UNCHANGED <<scopes, cur_func_ret_ty, pass, folded>>
    /\ UnchangedBuilder

(* The condition of an if or a while: visit_expr, then expect_type!(Bool). *)
visit_cond(sc, cond, oc) ==
    LET visited(r) ==
            IF r.res # "Ok" THEN r
            ELSE IF r.expr.ty.t # "Bool" THEN ExprResult("TypeMismatch", r.expr, None)
            ELSE r
    IN  visited(TypeChecker_visit_expr(sc, cond, oc))

(* visit_if_stmt *)
TC_VisitIfStmt ==
    /\ TC_AtStmt("If")
    /\ \E oc \in Builds :
        LET visited(r) ==
            /\ program' = SetNodeAt(program, Top.path \o <<"cond">>, r.expr)
            /\ overflow_checks' =
                   BuildAfter(visit_cond(scopes, TopNode.cond, TRUE)
                                # visit_cond(scopes, TopNode.cond, FALSE), oc)
            /\ IF r.res = "Ok"
               THEN /\ kont' = <<Frame("stmt", Top.path \o <<"then_block">>)>>
                                \o (IF IsSome(TopNode.else_block)
                                    THEN <<Frame("stmt", Top.path \o <<"else_block", 1>>)>>
                                    ELSE << >>)
                                \o Tail(kont)
                    /\ UNCHANGED <<phase, tc_result>>
               ELSE TC_Return(r.res)
        IN  visited(visit_cond(scopes, TopNode.cond, oc))
    /\ UNCHANGED <<scopes, cur_func_ret_ty, pass, folded>>
    /\ UnchangedBuilder

(* visit_while_stmt *)
TC_VisitWhileStmt ==
    /\ TC_AtStmt("While")
    /\ \E oc \in Builds :
        LET visited(r) ==
            /\ program' = SetNodeAt(program, Top.path \o <<"cond">>, r.expr)
            /\ overflow_checks' =
                   BuildAfter(visit_cond(scopes, TopNode.cond, TRUE)
                                # visit_cond(scopes, TopNode.cond, FALSE), oc)
            /\ IF r.res = "Ok"
               THEN /\ kont' = <<Frame("stmt", Top.path \o <<"body">>)>> \o Tail(kont)
                    /\ UNCHANGED <<phase, tc_result>>
               ELSE TC_Return(r.res)
        IN  visited(visit_cond(scopes, TopNode.cond, oc))
    /\ UNCHANGED <<scopes, cur_func_ret_ty, pass, folded>>
    /\ UnchangedBuilder

(* visit_break_stmt, visit_continue_stmt, visit_empty_stmt: Ok(()). *)
TypeChecker_visit_break_stmt == "Ok"
TypeChecker_visit_continue_stmt == "Ok"
TypeChecker_visit_empty_stmt == "Ok"

TC_Leaf(res) ==
    /\ IF res = "Ok"
       THEN kont' = Tail(kont) /\ UNCHANGED <<phase, tc_result>>
       ELSE TC_Return(res)
    /\ UNCHANGED <<program, scopes, cur_func_ret_ty, pass, folded, overflow_checks>>
    /\ UnchangedBuilder

TC_VisitBreakStmt == TC_AtStmt("Break") /\ TC_Leaf(TypeChecker_visit_break_stmt)
TC_VisitContinueStmt == TC_AtStmt("Continue") /\ TC_Leaf(TypeChecker_visit_continue_stmt)
TC_VisitEmptyStmt == TC_AtStmt("Empty") /\ TC_Leaf(TypeChecker_visit_empty_stmt)

(* visit_return_stmt: [res, val]. *)
TypeChecker_visit_return_stmt(sc, ret_ty, val, oc) ==
    LET visited(r) ==
            IF r.res # "Ok" THEN [res |-> r.res, val |-> Some(r.expr)]
            ELSE [res |-> assert_type_eq(r.expr.ty, ret_ty), val |-> Some(r.expr)]
    IN  IF ~ IsSome(val)
        THEN [res |-> assert_type_eq(TyVoid, ret_ty), val |-> val]
        ELSE visited(TypeChecker_visit_expr(sc, Unwrap(val), oc))

TC_VisitReturnStmt ==
    /\ TC_AtStmt("Return")
    /\ \E oc \in Builds :
        LET visited(r) ==
            /\ program' = SetNodeAt(program, Top.path \o <<"val">>, r.val)
            /\ overflow_checks' =
                   BuildAfter(TypeChecker_visit_return_stmt(scopes, cur_func_ret_ty,
                                                           TopNode.val, TRUE)
                                # TypeChecker_visit_return_stmt(scopes, cur_func_ret_ty,
                                                                TopNode.val, FALSE), oc)
            /\ IF r.res = "Ok"
               THEN kont' = Tail(kont) /\ UNCHANGED <<phase, tc_result>>
               ELSE TC_Return(r.res)
        IN  visited(TypeChecker_visit_return_stmt(scopes, cur_func_ret_ty, TopNode.val, oc))
    /\ UNCHANGED <<scopes, cur_func_ret_ty, pass, folded>>
    /\ UnchangedBuilder

(* A second run of the Type Checker, with a fresh checker, on the tree the *)
(* first run accepted.                                                     *)
TC_Recheck ==
    /\ phase = "tc_done" /\ tc_result = "Ok" /\ pass = 1
    /\ pass' = 2
    /\ folded' = Some(program)
    /\ scopes' = ScopeBuilder_new
    /\ cur_func_ret_ty' = TyUnknown
    /\ tc_result' = "new"
    /\ phase' = "tc_new"
    /\ UNCHANGED <<program, kont, overflow_checks>>
    /\ UnchangedBuilder

TypeCheckerNext ==
    \/ TC_VisitProgram \/ TC_ProgramEnd
    \/ TC_VisitGlobalDecl \/ TC_VisitFunc \/ TC_FuncEnd
    \/ TC_VisitBlockStmt \/ TC_BlockEnd
    \/ TC_VisitDeclStmt \/ TC_VisitExprStmt
    \/ TC_VisitIfStmt \/ TC_VisitWhileStmt
    \/ TC_VisitBreakStmt \/ TC_VisitContinueStmt \/ TC_VisitReturnStmt
    \/ TC_VisitEmptyStmt
    \/ TC_Recheck

-----------------------------------------------------------------------------
(* The IR Module Model: IrTy, Operand, Constant, the instructions and the  *)
(* arenas of a function.  An id is the index of its node in the arena.     *)
IrVoid == [t |-> "Void"]
IrInt(bits) == [t |-> "Int", bits |-> bits]
IrFuncTy(ret_ty, params_ty) == [t |-> "Func", ret_ty |-> ret_ty, params_ty |-> params_ty]
IrArray(siz, elem) == [t |-> "Array", siz |-> siz, elem |-> elem]
IrPtr(elem) == [t |-> "Ptr", elem |-> elem]
IrUnreachable == [t |-> "unreachable"]
IrTy_ptr_of(ty) == IrPtr(ty)

(* impl From<AstTy> for IrTy (context.rs); Unknown is unreachable!(). *)
RECURSIVE IrTy_from(_)
IrTy_from(ast_ty) ==
    CASE ast_ty.t = "Void" -> IrVoid
      [] ast_ty.t = "Int" -> IrInt(32)
      [] ast_ty.t = "Bool" -> IrInt(1)
      [] ast_ty.t = "Func" ->
           LET ret == IrTy_from(ast_ty.ret_ty)
               params == [i \in 1..Len(ast_ty.param_tys) |-> IrTy_from(ast_ty.param_tys[i])]
           IN  IF ret = IrUnreachable \/ \E i \in 1..Len(params) : params[i] = IrUnreachable
               THEN IrUnreachable ELSE IrFuncTy(ret, params)
      [] ast_ty.t = "Array" ->
           LET elem == IrTy_from(ast_ty.elem_ty) IN
           IF elem = IrUnreachable THEN IrUnreachable ELSE IrArray(ast_ty.siz, elem)
      [] ast_ty.t = "Ptr" ->
           LET elem == IrTy_from(ast_ty.elem_ty) IN
           IF elem = IrUnreachable THEN IrUnreachable ELSE IrPtr(elem)
      [] ast_ty.t = "Unknown" -> IrUnreachable

OperandInst(id) == [o |-> "Inst", id |-> id]
OperandParam(id) == [o |-> "Param", id |-> id]
OperandGlobal(id) == [o |-> "Global", id |-> id]
OperandConst(c) == [o |-> "Const", c |-> c]
ConstantInt(val) == [c |-> "Int", val |-> val]
ConstantArray(ty, elems) == [c |-> "Array", ty |-> ty, elems |-> elems]
ConstZero == OperandConst(ConstantInt(0))

(* IdInfo (context.rs) and impl From<IdInfo> for Operand: [res, val]. *)
IdInst(id) == [i |-> "Inst", id |-> id]
IdFunc(id) == [i |-> "Func", id |-> id]
IdGlobal(id) == [i |-> "Global", id |-> id]
IdParam(id) == [i |-> "Param", id |-> id]
Operand_from(name_id) ==
    CASE name_id.i = "Inst" -> [res |-> "Ok", val |-> OperandInst(name_id.id)]
      [] name_id.i = "Global" -> [res |-> "Ok", val |-> OperandGlobal(name_id.id)]
      [] name_id.i = "Param" -> [res |-> "Ok", val |-> OperandParam(name_id.id)]
      [] OTHER -> [res |-> "abort", val |-> ConstZero]

(* impl From<LiteralExpr> for Constant (context.rs): [res, c]. *)
RECURSIVE Constant_from(_)
Constant_from(literal) ==
    IF literal.kind = "Integer" THEN [res |-> "Ok", c |-> ConstantInt(literal.val)]
    ELSE LET vals == [i \in 1..Len(literal.vals) |-> Constant_from(literal.vals[i])]
             ty == IrTy_from(literal.ty)
         IN  IF ty = IrUnreachable \/ \E i \in 1..Len(vals) : vals[i].res # "Ok"
             THEN [res |-> "abort", c |-> ConstantInt(0)]
             ELSE [res |-> "Ok",
                   c |-> ConstantArray(ty, [i \in 1..Len(vals) |-> vals[i].c])]

(* Constant::build_zero: the structurally zeroed constant of a type. *)
RECURSIVE Constant_build_zero(_)
Constant_build_zero(ty) ==
    IF ty.t = "Array"
    THEN ConstantArray(ty, [i \in 1..ty.siz |-> Constant_build_zero(ty.elem)])
    ELSE ConstantInt(0)

(* The instructions: InstKind with the instruction's type. *)
Alloca(alloca_ty, ty) == [kind |-> "Alloca", alloca_ty |-> alloca_ty, ty |-> ty]
Store(addr, data) == [kind |-> "Store", addr |-> addr, data |-> data, ty |-> IrVoid]
GEP(ptr, indices, ty) == [kind |-> "GEP", ptr |-> ptr, indices |-> indices, ty |-> ty]
Load(addr, ty) == [kind |-> "Load", addr |-> addr, ty |-> ty]
Binary(op, left, right, ty) ==
    [kind |-> "Binary", op |-> op, left |-> left, right |-> right, ty |-> ty]
ZExt(ori_val, target_ty, ty) ==
    [kind |-> "ZExt", ori_val |-> ori_val, target_ty |-> target_ty, ty |-> ty]
Call(func_id, args, ty) == [kind |-> "Call", func_id |-> func_id, args |-> args, ty |-> ty]
Br(cond, true_bb, false_bb) ==
    [kind |-> "Br", br |-> "Br", cond |-> cond, true_bb |-> true_bb,
     false_bb |-> false_bb, ty |-> IrVoid]
Jump(nxt_bb) == [kind |-> "Br", br |-> "Jump", nxt_bb |-> nxt_bb, ty |-> IrVoid]
RetInst(val) == [kind |-> "RetInst", val |-> val, ty |-> IrVoid]

(* IrFunc: the arenas of instructions, blocks and parameters, and the      *)
(* order of the blocks.                                                    *)
IrFunc_new(name, ret_ty, is_builtin) ==
    [name |-> name, ret_ty |-> ret_ty, is_builtin |-> is_builtin,
     params |-> << >>, insts |-> << >>, bbs |-> << >>, order |-> << >>]
IrFunc_build_func_param(func, ty) == [func EXCEPT !.params = Append(@, ty)]
(* build_inst_at_end: the new instruction is the last one of block bb. *)
IrFunc_build_inst_at_end(func, inst, bb) ==
    [func EXCEPT !.insts = Append(@, inst),
                 !.bbs[bb] = Append(@, Len(func.insts) + 1)]
(* build_bb: a new empty block, last in the order. *)
IrFunc_build_bb(func) ==
    [func EXCEPT !.bbs = Append(@, << >>), !.order = Append(@, Len(func.bbs) + 1)]
(* build_bb_after_cur: a new empty block, right after block bb in the order. *)
IrFunc_build_bb_after_cur(func, bb) ==
    LET k == CHOOSE i \in 1..Len(func.order) : func.order[i] = bb IN
    [func EXCEPT !.bbs = Append(@, << >>),
                 !.order = SubSeq(@, 1, k) \o <<Len(func.bbs) + 1>>
                              \o SubSeq(@, k + 1, Len(@))]

(* Context (context.rs). *)
Module_new == [funcs |-> << >>, globals |-> << >>]
Context_new ==
    [scope_builder |-> ScopeBuilder_new, cur_module |-> Module_new,
     cur_func |-> 0, cur_bb |-> 0]
Context_cur_func(cx) == cx.cur_module.funcs[cx.cur_func]
Context_get_func_ty(cx, func) ==
    IrFuncTy(cx.cur_module.funcs[func].ret_ty, cx.cur_module.funcs[func].params)
Context_set_cur_bb(cx, bb) == [cx EXCEPT !.cur_bb = bb]
Context_set_cur_func(cx, func) == [cx EXCEPT !.cur_func = func]
(* The builders return the context with the new id. *)
Context_build_inst_end(cx, inst, bb) ==
    [cx |-> [cx EXCEPT !.cur_module.funcs[cx.cur_func] =
                           IrFunc_build_inst_at_end(@, inst, bb)],
     id |-> Len(Context_cur_func(cx).insts) + 1]
Context_build_inst_end_of_cur(cx, inst) == Context_build_inst_end(cx, inst, cx.cur_bb)
Context_build_bb_after_cur(cx) ==
    [cx |-> [cx EXCEPT !.cur_module.funcs[cx.cur_func] =
                           IrFunc_build_bb_after_cur(@, cx.cur_bb)],
     id |-> Len(Context_cur_func(cx).bbs) + 1]
Context_build_bb(cx) ==
    [cx |-> [cx EXCEPT !.cur_module.funcs[cx.cur_func] = IrFunc_build_bb(@)],
     id |-> Len(Context_cur_func(cx).bbs) + 1]
Context_build_func(cx, func) ==
    [cx |-> [cx EXCEPT !.cur_module.funcs = Append(@, func)],
     id |-> Len(cx.cur_module.funcs) + 1]
Context_build_global(cx, global) ==
    [cx |-> [cx EXCEPT !.cur_module.globals = Append(@, global)],
     id |-> Len(cx.cur_module.globals) + 1]
Context_build_func_param(cx, ty) ==
    [cx |-> [cx EXCEPT !.cur_module.funcs[cx.cur_func] = IrFunc_build_func_param(@, ty)],
     id |-> Len(Context_cur_func(cx).params) + 1]
(* scope_builder.insert, its Option dropped. *)
Context_insert(cx, name, id) ==
    [cx EXCEPT !.scope_builder = ScopeBuilder_insert(@, name, id).sb]

-----------------------------------------------------------------------------
(* The IR Builder's expression visitors (ir_builder.rs).  Each returns     *)
(* [res, cx, val]: the Result, the context as the visit left it and the    *)
(* Operand of an Ok.                                                       *)
IrResult(res, cx, val) == [res |-> res, cx |-> cx, val |-> val]
IrAbort(cx) == IrResult("abort", cx, ConstZero)

(* BinaryOp::to_binary_inst_kind: the instruction of the same name. *)
to_binary_inst_kind(op) == op

RECURSIVE IrBuilder_visit_expr(_, _)
RECURSIVE IrBuilder_visit_lexpr(_, _, _)
RECURSIVE lexpr_indices(_, _, _, _)
RECURSIVE call_args(_, _, _, _)

(* visit_literal_expr *)
IrBuilder_visit_literal_expr(cx, expr) ==
    IF expr.kind = "Integer" THEN IrResult("Ok", cx, OperandConst(ConstantInt(expr.val)))
    ELSE IrAbort(cx)

(* The indices visit_lexpr starts with: 0 unless the address is a          *)
(* parameter.  Before it, a variant that always starts with 0.             *)
lexpr_leading_always(addr) == <<ConstZero>>
lexpr_leading(addr) == IF addr.o # "Param" THEN <<ConstZero>> ELSE << >>

(* The loop of visit_lexpr over the subscripts: [res, cx, indices]. *)
lexpr_indices(cx, subs, i, indices) ==
    IF i > Len(subs) THEN [res |-> "Ok", cx |-> cx, indices |-> indices]
    ELSE LET visited(r) ==
                 IF r.res # "Ok" THEN [res |-> r.res, cx |-> r.cx, indices |-> indices]
                 ELSE lexpr_indices(r.cx, subs, i + 1, Append(indices, r.val))
         IN  visited(IrBuilder_visit_expr(cx, subs[i]))

(* visit_lexpr *)
IrBuilder_visit_lexpr(cx, expr, is_lvalue) ==
    LET loaded(b) == IrResult("Ok", b.cx, OperandInst(b.id))
        addressed(ty, g) ==
            IF g.res # "Ok" THEN IrResult(g.res, g.cx, ConstZero)
            ELSE IF is_lvalue \/ expr.ty.t = "Array" THEN IrResult("Ok", g.cx, g.addr)
            ELSE loaded(Context_build_inst_end_of_cur(g.cx, Load(g.addr, ty)))
        gep(b) == [res |-> "Ok", cx |-> b.cx, addr |-> OperandInst(b.id)]
        indexed(ty, addr, ix) ==
            IF ix.res # "Ok" THEN [res |-> ix.res, cx |-> ix.cx, addr |-> addr]
            ELSE gep(Context_build_inst_end_of_cur(ix.cx,
                         GEP(addr, ix.indices, IrTy_ptr_of(ty))))
        based(ty, base) ==
            IF base.res # "Ok" THEN IrAbort(cx)
            ELSE addressed(ty,
                     IF ~ IsSome(expr.subs)
                     THEN [res |-> "Ok", cx |-> cx, addr |-> base.val]
                     ELSE indexed(ty, base.val,
                              lexpr_indices(cx, Unwrap(expr.subs), 1,
                                            lexpr_leading(base.val))))
        typed(ty, found) ==
            IF ty = IrUnreachable \/ ~ IsSome(found) THEN IrAbort(cx)
            ELSE based(ty, Operand_from(Unwrap(found)))
    IN  IF expr.e # "LVal" THEN IrAbort(cx)
        ELSE typed(IrTy_from(expr.ty), find_name_rec(cx.scope_builder, expr.ident))

(* visit_assign_expr *)
IrBuilder_visit_assign_expr(cx, expr) ==
    LET rhs(l, r) ==
            IF r.res # "Ok" THEN r
            ELSE IrResult("Ok",
                          Context_build_inst_end_of_cur(r.cx, Store(l.val, r.val)).cx,
                          r.val)
        lhs(l) == IF l.res # "Ok" THEN l
                  ELSE rhs(l, IrBuilder_visit_expr(l.cx, expr.rhs))
    IN  lhs(IrBuilder_visit_lexpr(cx, expr.lhs, TRUE))

(* visit_unary_expr *)
IrBuilder_visit_unary_expr(cx, expr) ==
    LET built(b) == IrResult("Ok", b.cx, OperandInst(b.id))
        not_of(z) == built(Context_build_inst_end_of_cur(z.cx,
                               Binary("Ne", z.val, ConstZero, IrInt(1))))
        visited(s) ==
            IF s.res # "Ok" THEN s
            ELSE
            CASE expr.op = "Neg" ->
                   IF IrTy_from(expr.ty) = IrUnreachable THEN IrAbort(s.cx)
                   ELSE built(Context_build_inst_end_of_cur(s.cx,
                                  Binary("Sub", ConstZero, s.val, IrTy_from(expr.ty))))
              [] expr.op = "Pos" -> s
              [] expr.op = "Not" ->
                   IF expr.sub_expr.ty.t = "Bool"
                   THEN not_of(built(Context_build_inst_end_of_cur(s.cx,
                                         ZExt(s.val, IrInt(32), IrInt(32)))))
                   ELSE not_of(s)
    IN  visited(IrBuilder_visit_expr(cx, expr.sub_expr))

(* visit_binary_expr *)
IrBuilder_visit_binary_expr(cx, expr) ==
    LET built(b) == IrResult("Ok", b.cx, OperandInst(b.id))
        both(l, r) ==
            IF r.res # "Ok" THEN r
            ELSE IF IrTy_from(expr.ty) = IrUnreachable THEN IrAbort(r.cx)
            ELSE built(Context_build_inst_end_of_cur(r.cx,
                           Binary(to_binary_inst_kind(expr.op), l.val, r.val,
                                  IrTy_from(expr.ty))))
        left(l) == IF l.res # "Ok" THEN l
                   ELSE both(l, IrBuilder_visit_expr(l.cx, expr.rhs))
    IN  left(IrBuilder_visit_expr(cx, expr.lhs))

(* The arguments passed as their visits return them, arrays undecayed. *)
RECURSIVE call_args_undecayed(_, _, _, _)
call_args_undecayed(cx, exprs, i, args) ==
    IF i > Len(exprs) THEN [res |-> "Ok", cx |-> cx, args |-> args]
    ELSE LET visited(r) ==
                 IF r.res # "Ok" THEN [res |-> r.res, cx |-> r.cx, args |-> args]
                 ELSE call_args_undecayed(r.cx, exprs, i + 1, Append(args, r.val))
         IN  visited(IrBuilder_visit_expr(cx, exprs[i]))

(* The closure of visit_call_expr over the arguments: [res, cx, args]. *)
call_args(cx, exprs, i, args) ==
    IF i > Len(exprs) THEN [res |-> "Ok", cx |-> cx, args |-> args]
    ELSE LET decayed(b) == call_args(b.cx, exprs, i + 1, Append(args, OperandInst(b.id)))
             visited(x_ty, r) ==
                 IF r.res # "Ok" THEN [res |-> r.res, cx |-> r.cx, args |-> args]
                 ELSE IF x_ty.t \in {"Int", "Bool", "Ptr"}
                 THEN call_args(r.cx, exprs, i + 1, Append(args, r.val))
                 ELSE IF x_ty.t = "Array"
                 THEN IF IrTy_from(x_ty.elem_ty) = IrUnreachable
                      THEN [res |-> "abort", cx |-> r.cx, args |-> args]
                      ELSE decayed(Context_build_inst_end_of_cur(r.cx,
                                       GEP(r.val, <<ConstZero, ConstZero>>,
                                           IrTy_ptr_of(IrTy_from(x_ty.elem_ty)))))
                 ELSE [res |-> "abort", cx |-> r.cx, args |-> args]
         IN  visited(exprs[i].ty, IrBuilder_visit_expr(cx, exprs[i]))

(* visit_call_expr *)
IrBuilder_visit_call_expr(cx, expr) ==
    LET built(b) == IrResult("Ok", b.cx, OperandInst(b.id))
        called(func_id, a) ==
            IF a.res # "Ok" THEN IrResult(a.res, a.cx, ConstZero)
            ELSE built(Context_build_inst_end_of_cur(a.cx,
                           Call(func_id, a.args, Context_get_func_ty(a.cx, func_id).ret_ty)))
        named(found) ==
            IF ~ IsSome(found) THEN IrAbort(cx)
            ELSE IF Unwrap(found).i # "Func" THEN IrAbort(cx)
            ELSE called(Unwrap(found).id, call_args(cx, expr.args, 1, << >>))
    IN  named(find_name_rec(cx.scope_builder, expr.func))

(* visit_expr *)
IrBuilder_visit_expr(cx, expr) ==
    CASE expr.e = "LVal" -> IrBuilder_visit_lexpr(cx, expr, FALSE)
      [] expr.e = "Assign" -> IrBuilder_visit_assign_expr(cx, expr)
      [] expr.e = "Literal" -> IrBuilder_visit_literal_expr(cx, expr)
      [] expr.e = "Unary" -> IrBuilder_visit_unary_expr(cx, expr)
      [] expr.e = "Binary" -> IrBuilder_visit_binary_expr(cx, expr)
      [] expr.e = "Call" -> IrBuilder_visit_call_expr(cx, expr)

-----------------------------------------------------------------------------
(* The IR Builder's declarations (ir_builder.rs).                          *)

(* visit_ty *)
IrBuilder_visit_ty(ty_ident) == IF ty_ident = "int" THEN IrInt(32) ELSE IrVoid

(* build_decl_init_val: [res, cx]. *)
RECURSIVE build_decl_init_val(_, _, _)
RECURSIVE build_decl_init_vals(_, _, _, _)
build_decl_init_vals(cx, init_val, base_addr, idx) ==
    IF idx > Len(init_val.vals) THEN [res |-> "Ok", cx |-> cx]
    ELSE LET stored(r) ==
                 IF r.res # "Ok" THEN r
                 ELSE build_decl_init_vals(r.cx, init_val, base_addr, idx + 1)
             gep(g) == stored(build_decl_init_val(g.cx, init_val.vals[idx], g.id))
             typed(ir_ty) ==
                 IF ir_ty = IrUnreachable \/ ir_ty.t # "Array"
                 THEN [res |-> "abort", cx |-> cx]
                 ELSE gep(Context_build_inst_end_of_cur(cx,
                              GEP(OperandInst(base_addr),
                                  <<ConstZero, OperandConst(ConstantInt(idx - 1))>>,
                                  IrTy_ptr_of(ir_ty.elem))))
         IN  typed(IrTy_from(init_val.ty))
build_decl_init_val(cx, init_val, base_addr) ==
    LET visited(r) ==
            IF r.res # "Ok" THEN [res |-> r.res, cx |-> r.cx]
            ELSE [res |-> "Ok",
                  cx |-> Context_build_inst_end_of_cur(r.cx,
                             Store(OperandInst(base_addr), r.val)).cx]
    IN  CASE init_val.kind = "Expr" -> visited(IrBuilder_visit_expr(cx, init_val.expr))
          [] init_val.kind = "ArrayVal" -> build_decl_init_vals(cx, init_val, base_addr, 1)
          [] OTHER -> [res |-> "abort", cx |-> cx]

(* visit_decl_stmt, from the i-th sub_decl on: [res, cx]. *)
RECURSIVE IrBuilder_decl_from(_, _, _)
IrBuilder_decl_from(cx, decl, i) ==
    IF i > Len(decl.sub_decls) THEN [res |-> "Ok", cx |-> cx]
    ELSE LET initialised(r) == IF r.res # "Ok" THEN r
                               ELSE IrBuilder_decl_from(r.cx, decl, i + 1)
             inserted(sub_decl, alloca_addr, cx1) ==
                 initialised(IF IsSome(sub_decl.init_val)
                             THEN build_decl_init_val(cx1, Unwrap(sub_decl.init_val),
                                                      alloca_addr)
                             ELSE [res |-> "Ok", cx |-> cx1])
             allocated(sub_decl, a) ==
                 inserted(sub_decl, a.id, Context_insert(a.cx, sub_decl.ident, IdInst(a.id)))
             typed(sub_decl, ty) ==
                 IF ty = IrUnreachable THEN [res |-> "abort", cx |-> cx]
                 ELSE allocated(sub_decl,
                          Context_build_inst_end_of_cur(cx, Alloca(ty, IrTy_ptr_of(ty))))
         IN  typed(decl.sub_decls[i], IrTy_from(decl.sub_decls[i].ty))
IrBuilder_visit_decl_stmt(cx, decl) == IrBuilder_decl_from(cx, decl, 1)

(* visit_const_init_val: [res, c]. *)
IrBuilder_visit_const_init_val(init_val) ==
    IF init_val.kind # "Const" THEN [res |-> "abort", c |-> ConstantInt(0)]
    ELSE Constant_from(init_val.literal)

(* Global::new *)
Global_new(ty, name, init) == [ty |-> ty, name |-> name, init |-> init]

(* visit_global_decl, from the i-th sub_decl on: [res, cx]. *)
RECURSIVE IrBuilder_global_from(_, _, _)
IrBuilder_global_from(cx, decl, i) ==
    IF i > Len(decl.sub_decls) THEN [res |-> "Ok", cx |-> cx]
    ELSE LET built(sub_decl, g) ==
                 IrBuilder_global_from(
                     Context_insert(g.cx, sub_decl.ident, IdGlobal(g.id)), decl, i + 1)
             initialised(sub_decl, ty, c) ==
                 IF c.res # "Ok" THEN [res |-> c.res, cx |-> cx]
                 ELSE built(sub_decl,
                          Context_build_global(cx,
                              Global_new(IrTy_ptr_of(ty), sub_decl.ident, c.c)))
             typed(sub_decl, ty) ==
                 IF ty = IrUnreachable THEN [res |-> "abort", cx |-> cx]
                 ELSE initialised(sub_decl, ty,
                          IF IsSome(sub_decl.init_val)
                          THEN IrBuilder_visit_const_init_val(Unwrap(sub_decl.init_val))
                          ELSE [res |-> "Ok", c |-> Constant_build_zero(ty)])
         IN  typed(decl.sub_decls[i], IrTy_from(decl.sub_decls[i].ty))
IrBuilder_visit_global_decl(cx, decl) == IrBuilder_global_from(cx, decl, 1)

(* visit_func_param: [res, cx]. *)
IrBuilder_visit_func_param(cx, param) ==
    LET stored(alloca_addr, param_id, cx1) ==
            [res |-> "Ok",
             cx |-> Context_build_inst_end_of_cur(cx1,
                        Store(OperandInst(alloca_addr), OperandParam(param_id))).cx]
        allocated(p, a) ==
            stored(a.id, p.id, Context_insert(a.cx, param.ident, IdInst(a.id)))
        built(ty, p) ==
            IF ty.t = "Ptr"
            THEN [res |-> "Ok", cx |-> Context_insert(p.cx, param.ident, IdParam(p.id))]
            ELSE allocated(p, Context_build_inst_end_of_cur(p.cx,
                                  Alloca(ty, IrTy_ptr_of(ty))))
        typed(ty) ==
            IF ty = IrUnreachable THEN [res |-> "abort", cx |-> cx]
            ELSE built(ty, Context_build_func_param(cx, ty))
    IN  typed(IrTy_from(param.ty))

RECURSIVE IrBuilder_params_from(_, _, _)
IrBuilder_params_from(cx, params, i) ==
    IF i > Len(params) THEN [res |-> "Ok", cx |-> cx]
    ELSE LET visited(r) == IF r.res # "Ok" THEN r
                           ELSE IrBuilder_params_from(r.cx, params, i + 1)
         IN  visited(IrBuilder_visit_func_param(cx, params[i]))

(* visit_func up to its call of visit_block_stmt: [res, cx]. *)
IrBuilder_visit_func(cx, ast_func) ==
    LET entered(b) ==
            IrBuilder_params_from(Context_set_cur_bb(b.cx, b.id), ast_func.params, 1)
        scoped(cx1) == entered(Context_build_bb([cx1 EXCEPT !.scope_builder = push_scope(@)]))
        built(f) ==
            scoped(Context_set_cur_func(
                       Context_insert(f.cx, ast_func.ident, IdFunc(f.id)), f.id))
    IN  built(Context_build_func(cx,
                  IrFunc_new(ast_func.ident, IrBuilder_visit_ty(ast_func.ret_ty_ident),
                             FALSE)))

(* A faulty variant: the default return never carries a value. *)
IrBuilder_visit_func_end_void(cx, ret_ty) ==
    LET built(r) == [r.cx EXCEPT !.scope_builder = pop_scope(@)]
    IN  built(Context_build_inst_end_of_cur(cx, RetInst(None)))

(* visit_func after visit_block_stmt returned Ok: the default return. *)
IrBuilder_visit_func_end(cx, ret_ty) ==
    LET built(r) == [r.cx EXCEPT !.scope_builder = pop_scope(@)]
    IN  built(Context_build_inst_end_of_cur(cx,
                  RetInst(IF ret_ty.t = "Void" THEN None ELSE Some(ConstZero))))

(* push_built_in_funcs (ir_builder.rs) *)
IrBuilder_built_in_funcs ==
    << [name |-> "getint", ret_ty |-> IrInt(32), params |-> << >>],
       [name |-> "getch", ret_ty |-> IrInt(32), params |-> << >>],
       [name |-> "getarray", ret_ty |-> IrInt(32), params |-> <<IrPtr(IrInt(32))>>],
       [name |-> "putint", ret_ty |-> IrVoid, params |-> <<IrInt(32)>>],
       [name |-> "putch", ret_ty |-> IrVoid, params |-> <<IrInt(32)>>],
       [name |-> "putarray", ret_ty |-> IrInt(32),
        params |-> <<IrInt(32), IrPtr(IrInt(32))>>] >>
RECURSIVE IrBuilder_push_from(_, _)
IrBuilder_push_from(cx, i) ==
    IF i > Len(IrBuilder_built_in_funcs) THEN cx
    ELSE LET built(bi, f) ==
                 IrBuilder_push_from(Context_insert(f.cx, bi.name, IdFunc(f.id)), i + 1)
             pushed(bi) ==
                 built(bi, Context_build_func(cx,
                               [IrFunc_new(bi.name, bi.ret_ty, TRUE)
                                   EXCEPT !.params = bi.params]))
         IN  pushed(IrBuilder_built_in_funcs[i])
IrBuilder_push_built_in_funcs(cx) == IrBuilder_push_from(cx, 1)

-----------------------------------------------------------------------------
(* The IR Builder (ir_builder.rs), statement by statement.                 *)

(* BCTarget and the loop-target stack. *)
BCTarget(break_target, continue_target) ==
    [break_target |-> break_target, continue_target |-> continue_target]
push_break_target(lt, break_target, continue_target) ==
    Append(lt, BCTarget(break_target, continue_target))
(* Two faulty variants, against which the loop-target properties are      *)
(* measured: a pop that leaves the stack as it is, and a break target     *)
(* that is block 0 when no loop is open.                                  *)
pop_loop_target_kept(lt) == lt
get_break_target_lenient(lt) ==
    IF lt = << >> THEN Some(0) ELSE Some(lt[Len(lt)].break_target)
pop_loop_target(lt) == IF lt = << >> THEN lt ELSE SubSeq(lt, 1, Len(lt) - 1)
get_break_target(lt) == IF lt = << >> THEN None ELSE Some(lt[Len(lt)].break_target)
get_continue_target(lt) == IF lt = << >> THEN None ELSE Some(lt[Len(lt)].continue_target)

(* A frame that resumes a handler: its local variables are in `locals`. *)
LFrame(op, path, locals) == [op |-> op, path |-> path, locals |-> locals]

UnchangedChecker ==
    UNCHANGED <<program, scopes, cur_func_ret_ty, tc_result, pass, folded, overflow_checks,
                call>>

(* An Err (or a panic) leaves the visitor through every pending `?`. *)
IB_Return(res) ==
    /\ ib_result' = res
    /\ kont' = << >>
    /\ phase' = "ib_done"

(* A handler that returned: Ok(()) goes on with the caller. *)
IB_Continue(res, frames) ==
    IF res = "Ok"
    THEN kont' = frames \o Tail(kont) /\ UNCHANGED <<phase, ib_result>>
    ELSE IB_Return(res)

(* IrBuilder::new, visit and visit_program up to the loop over the items,  *)
(* on a tree the Type Checker accepted.                                    *)
IB_VisitProgram ==
    /\ phase = "tc_done" /\ tc_result = "Ok" /\ pass = 1
    /\ ctx' = IrBuilder_push_built_in_funcs(
                  [Context_new EXCEPT !.scope_builder = push_scope(@)])
    /\ loop_targets' = << >>
    /\ kont' = FramesOf("item", <<"program_items">>, program.program_items)
                  \o <<Frame("program_end", << >>)>>
    /\ phase' = "ib"
    /\ ib_result' = "running"
    /\ UnchangedChecker

(* visit_program, after the loop. *)
IB_ProgramEnd ==
    /\ phase = "ib" /\ kont # << >> /\ Top.op = "program_end"
    /\ ctx' = [ctx EXCEPT !.scope_builder = pop_scope(@)]
    /\ IB_Return("Ok")
    /\ UNCHANGED loop_targets
    /\ UnchangedChecker

IB_VisitGlobalDecl ==
    /\ phase = "ib" /\ kont # << >> /\ Top.op = "item" /\ TopNode.node = "Decl"
    /\ LET visited(r) == ctx' = r.cx /\ IB_Continue(r.res, << >>)
       IN  visited(IrBuilder_visit_global_decl(ctx, TopNode))
    /\ UNCHANGED loop_targets
    /\ UnchangedChecker

IB_VisitFunc ==
    /\ phase = "ib" /\ kont # << >> /\ Top.op = "item" /\ TopNode.node = "Func"
    /\ LET visited(r) ==
               /\ ctx' = r.cx
               /\ IB_Continue(r.res,
                      <<Frame("stmt", Top.path \o <<"body">>),
                        LFrame("func_end", Top.path,
                               [ret_ty |-> IrBuilder_visit_ty(TopNode.ret_ty_ident)])>>)
       IN  visited(IrBuilder_visit_func(ctx, TopNode))
    /\ UNCHANGED loop_targets
    /\ UnchangedChecker

(* visit_func, after visit_block_stmt returned Ok. *)
IB_FuncEnd ==
    /\ phase = "ib" /\ kont # << >> /\ Top.op = "func_end"
    /\ ctx' = IrBuilder_visit_func_end(ctx, Top.locals.ret_ty)
    /\ kont' = Tail(kont)
    /\ UNCHANGED <<phase, ib_result, loop_targets>>
    /\ UnchangedChecker

IB_AtStmt(kind) ==
    /\ phase = "ib" /\ kont # << >> /\ Top.op = "stmt" /\ TopNode.node = kind

(* visit_block_stmt, up to the loop over the items. *)
IB_VisitBlockStmt ==
    /\ IB_AtStmt("Block")
    /\ ctx' = [ctx EXCEPT !.scope_builder = push_scope(@)]
    /\ kont' = FramesOf("stmt", Top.path \o <<"block_items">>, TopNode.block_items)
                  \o <<Frame("block_end", Top.path)>> \o Tail(kont)
    /\ UNCHANGED <<phase, ib_result, loop_targets>>
    /\ UnchangedChecker

(* visit_block_stmt, after the loop. *)
(* A faulty variant: the block's scope stays on the stack. *)
IB_BlockEnd_unpopped ==
    /\ phase = "ib" /\ kont # << >> /\ Top.op = "block_end"
    /\ kont' = Tail(kont)
    /\ UNCHANGED <<phase, ib_result, ctx, loop_targets>>
    /\ UnchangedChecker

IB_BlockEnd ==
    /\ phase = "ib" /\ kont # << >> /\ Top.op = "block_end"
    /\ ctx' = [ctx EXCEPT !.scope_builder = pop_scope(@)]
    /\ kont' = Tail(kont)
    /\ UNCHANGED <<phase, ib_result, loop_targets>>
    /\ UnchangedChecker

IB_VisitDeclStmt ==
    /\ IB_AtStmt("Decl")
    /\ LET visited(r) == ctx' = r.cx /\ IB_Continue(r.res, << >>)
       IN  visited(IrBuilder_visit_decl_stmt(ctx, TopNode))
    /\ UNCHANGED loop_targets
    /\ UnchangedChecker

IB_VisitExprStmt ==
    /\ IB_AtStmt("Expr")
    /\ LET visited(r) == ctx' = r.cx /\ IB_Continue(r.res, << >>)
       IN  visited(IrBuilder_visit_expr(ctx, TopNode.expr))
    /\ UNCHANGED loop_targets
    /\ UnchangedChecker

(* A faulty variant: the false target is the next block even with an else. *)
IrBuilder_if_end_false_to_next(cx, cond, old_bb, then_bb, then_bb_end, else_bb, else_bb_end) ==
    LET else_br(nxt_bb, c2) ==
            Context_set_cur_bb(
                IF IsSome(else_bb_end)
                THEN Context_build_inst_end(c2, Jump(nxt_bb), Unwrap(else_bb_end)).cx
                ELSE c2,
                nxt_bb)
        then_br(nxt_bb, c1) ==
            else_br(nxt_bb, Context_build_inst_end(c1, Jump(nxt_bb), then_bb_end).cx)
        cond_br(n) ==
            then_br(n.id,
                Context_build_inst_end(n.cx,
                    Br(cond, then_bb, n.id),
                    old_bb).cx)
    IN  cond_br(Context_build_bb_after_cur(cx))

(* visit_if_stmt from `nxt bb` on. *)
IrBuilder_if_end(cx, cond, old_bb, then_bb, then_bb_end, else_bb, else_bb_end) ==
    LET else_br(nxt_bb, c2) ==
            Context_set_cur_bb(
                IF IsSome(else_bb_end)
                THEN Context_build_inst_end(c2, Jump(nxt_bb), Unwrap(else_bb_end)).cx
                ELSE c2,
                nxt_bb)
        then_br(nxt_bb, c1) ==
            else_br(nxt_bb, Context_build_inst_end(c1, Jump(nxt_bb), then_bb_end).cx)
        cond_br(n) ==
            then_br(n.id,
                Context_build_inst_end(n.cx,
                    Br(cond, then_bb, IF IsSome(else_bb) THEN Unwrap(else_bb) ELSE n.id),
                    old_bb).cx)
    IN  cond_br(Context_build_bb_after_cur(cx))

(* visit_if_stmt, up to its visit of the then block. *)
IB_VisitIfStmt ==
    /\ IB_AtStmt("If")
    /\ LET then_blk(cond, old_bb, t) ==
               /\ ctx' = Context_set_cur_bb(t.cx, t.id)
               /\ kont' = <<Frame("stmt", Top.path \o <<"then_block">>),
                            LFrame("if_then_end", Top.path,
                                   [cond |-> cond, old_bb |-> old_bb, then_bb |-> t.id])>>
                             \o Tail(kont)
               /\ UNCHANGED <<phase, ib_result>>
           visited(r) ==
               IF r.res # "Ok"
               THEN ctx' = r.cx /\ IB_Return(r.res)
               ELSE then_blk(r.val, r.cx.cur_bb, Context_build_bb_after_cur(r.cx))
       IN  visited(IrBuilder_visit_expr(ctx, TopNode.cond))
    /\ UNCHANGED loop_targets
    /\ UnchangedChecker

(* visit_if_stmt, after the then block: the else block, if there is one. *)
IB_IfThenEnd ==
    /\ phase = "ib" /\ kont # << >> /\ Top.op = "if_then_end"
    /\ LET else_blk(l, then_bb_end, e) ==
               /\ ctx' = Context_set_cur_bb(e.cx, e.id)
               /\ kont' = <<Frame("stmt", Top.path \o <<"else_block", 1>>),
                            LFrame("if_else_end", Top.path,
                                   [cond |-> l.cond, old_bb |-> l.old_bb,
                                    then_bb |-> l.then_bb, then_bb_end |-> then_bb_end,
                                    else_bb |-> e.id])>>
                             \o Tail(kont)
           then_end(l, then_bb_end) ==
               IF IsSome(TopNode.else_block)
               THEN else_blk(l, then_bb_end, Context_build_bb_after_cur(ctx))
               ELSE /\ ctx' = IrBuilder_if_end(ctx, l.cond, l.old_bb, l.then_bb,
                                               then_bb_end, None, None)
                    /\ kont' = Tail(kont)
       IN  then_end(Top.locals, ctx.cur_bb)
    /\ UNCHANGED <<phase, ib_result, loop_targets>>
    /\ UnchangedChecker

(* visit_if_stmt, after the else block. *)
IB_IfElseEnd ==
    /\ phase = "ib" /\ kont # << >> /\ Top.op = "if_else_end"
    /\ LET else_end(l) ==
               ctx' = IrBuilder_if_end(ctx, l.cond, l.old_bb, l.then_bb, l.then_bb_end,
                                       Some(l.else_bb), Some(ctx.cur_bb))
       IN  else_end(Top.locals)
    /\ kont' = Tail(kont)
    /\ UNCHANGED <<phase, ib_result, loop_targets>>
    /\ UnchangedChecker

(* visit_while_stmt, up to its visit of the body. *)
IB_VisitWhileStmt ==
    /\ IB_AtStmt("While")
    /\ LET body(old_bb, cond_bb, cond, loop_bb, n) ==
               /\ ctx' = Context_set_cur_bb(n.cx, loop_bb)
               /\ loop_targets' = push_break_target(loop_targets, n.id, cond_bb)
               /\ kont' = <<Frame("stmt", Top.path \o <<"body">>),
                            LFrame("while_end", Top.path,
                                   [old_bb |-> old_bb, cond_bb |-> cond_bb,
                                    cond |-> cond, loop_bb |-> loop_bb,
                                    nxt_bb |-> n.id])>>
                             \o Tail(kont)
               /\ UNCHANGED <<phase, ib_result>>
           loop(old_bb, cond_bb, cond, l) ==
               body(old_bb, cond_bb, cond, l.id, Context_build_bb_after_cur(l.cx))
           visited(old_bb, cond_bb, r) ==
               IF r.res # "Ok"
               THEN ctx' = r.cx /\ IB_Return(r.res) /\ UNCHANGED loop_targets
               ELSE loop(old_bb, cond_bb, r.val, Context_build_bb_after_cur(r.cx))
           cond_blk(old_bb, c) ==
               visited(old_bb, c.id,
                       IrBuilder_visit_expr(Context_set_cur_bb(c.cx, c.id), TopNode.cond))
       IN  cond_blk(ctx.cur_bb, Context_build_bb_after_cur(ctx))
    /\ UnchangedChecker

(* visit_while_stmt, after the body. *)
IB_WhileEnd ==
    /\ phase = "ib" /\ kont # << >> /\ Top.op = "while_end"
    /\ LET loop_body_br(l, loop_end_bb, c2) ==
               ctx' = Context_set_cur_bb(
                          Context_build_inst_end(c2, Jump(l.cond_bb), loop_end_bb).cx,
                          l.nxt_bb)
           loop_cond_br(l, loop_end_bb, c1) ==
               loop_body_br(l, loop_end_bb,
                   Context_build_inst_end(c1, Br(l.cond, l.loop_bb, l.nxt_bb),
                                          l.cond_bb).cx)
           old_bb_br(l, loop_end_bb) ==
               loop_cond_br(l, loop_end_bb,
                   Context_build_inst_end(ctx, Jump(l.cond_bb), l.old_bb).cx)
       IN  old_bb_br(Top.locals, ctx.cur_bb)
    /\ loop_targets' = pop_loop_target(loop_targets)
    /\ kont' = Tail(kont)
    /\ UNCHANGED <<phase, ib_result>>
    /\ UnchangedChecker

(* A faulty variant, against which the block properties are measured: the *)
(* terminator is emitted and the current block stays open.                *)
IrBuilder_close_bb_unsplit(cx, inst) == Context_build_inst_end_of_cur(cx, inst).cx

(* The tail of visit_break_stmt, visit_continue_stmt and visit_return_stmt: *)
(* the terminator closes the current block and a fresh block is opened.     *)
IrBuilder_close_bb(cx, inst) ==
    LET opened(n) == Context_set_cur_bb(n.cx, n.id)
    IN  opened(Context_build_bb_after_cur(Context_build_inst_end_of_cur(cx, inst).cx))

(* visit_break_stmt: [res, cx]. *)
IrBuilder_visit_break_stmt(cx, lt) ==
    LET break_target == get_break_target(lt) IN
    IF ~ IsSome(break_target) THEN [res |-> "BreakOutsideLoop", cx |-> cx]
    ELSE [res |-> "Ok", cx |-> IrBuilder_close_bb(cx, Jump(Unwrap(break_target)))]

IB_VisitBreakStmt ==
    /\ IB_AtStmt("Break")
    /\ LET visited(r) == ctx' = r.cx /\ IB_Continue(r.res, << >>)
       IN  visited(IrBuilder_visit_break_stmt(ctx, loop_targets))
    /\ UNCHANGED loop_targets
    /\ UnchangedChecker

(* visit_continue_stmt: [res, cx]. *)
IrBuilder_visit_continue_stmt(cx, lt) ==
    LET continue_target == get_continue_target(lt) IN
    IF ~ IsSome(continue_target) THEN [res |-> "ContinueOutsideLoop", cx |-> cx]
    ELSE [res |-> "Ok", cx |-> IrBuilder_close_bb(cx, Jump(Unwrap(continue_target)))]

IB_VisitContinueStmt ==
    /\ IB_AtStmt("Continue")
    /\ LET visited(r) == ctx' = r.cx /\ IB_Continue(r.res, << >>)
       IN  visited(IrBuilder_visit_continue_stmt(ctx, loop_targets))
    /\ UNCHANGED loop_targets
    /\ UnchangedChecker

(* visit_return_stmt: [res, cx]. *)
IrBuilder_visit_return_stmt(cx, stmt) ==
    IF ~ IsSome(stmt.val)
    THEN [res |-> "Ok", cx |-> IrBuilder_close_bb(cx, RetInst(None))]
    ELSE LET visited(r) ==
                 IF r.res # "Ok" THEN [res |-> r.res, cx |-> r.cx]
                 ELSE [res |-> "Ok", cx |-> IrBuilder_close_bb(r.cx, RetInst(Some(r.val)))]
         IN  visited(IrBuilder_visit_expr(cx, Unwrap(stmt.val)))

IB_VisitReturnStmt ==
    /\ IB_AtStmt("Return")
    /\ LET visited(r) == ctx' = r.cx /\ IB_Continue(r.res, << >>)
       IN  visited(IrBuilder_visit_return_stmt(ctx, TopNode))
    /\ UNCHANGED loop_targets
    /\ UnchangedChecker

(* visit_empty_stmt *)
IB_VisitEmptyStmt ==
    /\ IB_AtStmt("Empty")
    /\ kont' = Tail(kont)
    /\ UNCHANGED <<phase, ib_result, ctx, loop_targets>>
    /\ UnchangedChecker

IrBuilderNext ==
    \/ IB_VisitProgram \/ IB_ProgramEnd
    \/ IB_VisitGlobalDecl \/ IB_VisitFunc \/ IB_FuncEnd
    \/ IB_VisitBlockStmt \/ IB_BlockEnd
    \/ IB_VisitDeclStmt \/ IB_VisitExprStmt
    \/ IB_VisitIfStmt \/ IB_IfThenEnd \/ IB_IfElseEnd
    \/ IB_VisitWhileStmt \/ IB_WhileEnd
    \/ IB_VisitBreakStmt \/ IB_VisitContinueStmt \/ IB_VisitReturnStmt
    \/ IB_VisitEmptyStmt

-----------------------------------------------------------------------------
(* The programs checked: syntax trees as the parser builds them (every ty  *)
(* Unknown), drawn from three bounded families.                            *)
MaxNodes == 5
MaxArgs == 2

Lit(val) == LiteralInteger(val, TyUnknown)
Var(ident) == LVal(ident, None)
IntDecl(ident) == Decl(FALSE, "int", <<SubDecl(ident, None, None)>>)

(* Control flow: the statement trees of n nodes over break, continue and   *)
(* return, under if, if/else, while and blocks.                            *)
Cond == BinaryExpr("Lt", Var("n"), Lit(1))
RECURSIVE StmtsOfSize(_)
StmtsOfSize(n) ==
    IF n = 1 THEN {BreakStmt, ContinueStmt, ReturnStmt(None)}
    ELSE {IfStmt(Cond, s, None) : s \in StmtsOfSize(n - 1)}
           \cup {WhileStmt(Cond, s) : s \in StmtsOfSize(n - 1)}
           \cup UNION {{IfStmt(Cond, s1, Some(s2)) :
                            s1 \in StmtsOfSize(k), s2 \in StmtsOfSize(n - 1 - k)} :
                       k \in 1..(n - 2)}
           \cup UNION {{BlockStmt(<<s1, s2>>) :
                            s1 \in StmtsOfSize(k), s2 \in StmtsOfSize(n - 1 - k)} :
                       k \in 1..(n - 2)}
CfgPrograms ==
    {Program(<<AstFunc("f", <<FuncParam("n", None, "int")>>, "void", BlockStmt(<<s>>))>>) :
         s \in UNION {StmtsOfSize(k) : k \in 1..MaxNodes}}

(* Expressions: one operator or call over the atoms, and a unary operator  *)
(* over those, as an expression statement or as the condition of an if.    *)
Atoms == {Lit(0), Lit(1), Lit(MaxI32), UnaryExpr("Neg", Lit(MaxI32)), Var("x")}
ArgLists == UNION {[1..k -> Atoms] : k \in 0..MaxArgs}
Exprs1 ==
    Atoms
      \cup {UnaryExpr(op, a) : op \in UnaryOps, a \in Atoms}
      \cup {BinaryExpr(op, a, b) : op \in BinaryOps, a \in Atoms, b \in Atoms}
      \cup {AssignExpr(Var("x"), a) : a \in Atoms}
      \cup {CallExpr(func, args) : func \in {"getint", "putint", "x"}, args \in ArgLists}
Exprs2 == Exprs1 \cup {UnaryExpr(op, e) : op \in UnaryOps, e \in Exprs1}
ExprProgram(stmt) ==
    Program(<<IntDecl("x"), AstFunc("main", << >>, "int", BlockStmt(<<stmt>>))>>)
ExprPrograms ==
    {ExprProgram(ExprStmt(e)) : e \in Exprs2}
      \cup {ExprProgram(IfStmt(e, EmptyStmt, None)) : e \in Exprs1}

(* Declarations: a declaration after `const int n = 2;` or `int x;`, both  *)
(* global, both in the body of main, or the first global and the second    *)
(* in the body.                                                            *)
ArrayInit(vals) == InitValArray([i \in 1..Len(vals) |-> InitValExpr(Lit(vals[i]))])
FirstDecls ==
    {Decl(TRUE, "int", <<SubDecl("n", None, Some(InitValExpr(Lit(2))))>>), IntDecl("x")}
SecondDecls ==
    {Decl(is_const, "int", <<SubDecl(ident, subs, init_val)>>) :
         is_const \in BOOLEAN, ident \in {"x", "y", "getint"},
         subs \in {None, Some(<<Lit(3)>>), Some(<<Var("n")>>)},
         init_val \in {None, Some(InitValExpr(Lit(1))), Some(ArrayInit(<<1, 2>>)),
                       Some(ArrayInit(<<1, 2, 3, 4>>))}}
DeclProgram(globals, locals) ==
    Program(globals \o <<AstFunc("main", << >>, "int", BlockStmt(locals))>>)
DeclPrograms ==
    UNION {{DeclProgram(<<d1, d2>>, << >>), DeclProgram(<< >>, <<d1, d2>>),
            DeclProgram(<<d1>>, <<d2>>)} : d1 \in FirstDecls, d2 \in SecondDecls}

(* Binary expressions over operands of every type a visit leaves: Int     *)
(* (literals, a variable, a folded product and difference), Bool (a       *)
(* comparison, folded or not), Void (a call) and Unknown (an assignment).  *)
Operands ==
    {Lit(3), Lit(2), UnaryExpr("Neg", Lit(7)), UnaryExpr("Neg", Lit(1)), Var("x"),
     BinaryExpr("Mul", Lit(4), Lit(2)),
     BinaryExpr("Sub", UnaryExpr("Neg", Lit(MaxI32)), Lit(1)),
     BinaryExpr("Lt", Var("x"), Lit(1)),
     BinaryExpr("Lt", Lit(0), Lit(1)),
     CallExpr("putint", <<Lit(1)>>),
     AssignExpr(Var("x"), Lit(0))}
BinPrograms ==
    {ExprProgram(ExprStmt(BinaryExpr(op, a, b))) :
         op \in BinaryOps, a \in Operands, b \in Operands}

(* Array declarations: after `const int n = 2; int dim = 2;`, an array     *)
(* `arr` of one or two subscripts declared as a global, as a local of main *)
(* or as the parameter of a function.                                      *)
MaxDims == 2
Dims ==
    {Lit(3), Lit(0), UnaryExpr("Neg", Lit(1)), Var("n"), Var("dim"),
     BinaryExpr("Add", Var("n"), Lit(1)), BinaryExpr("Lt", Lit(0), Lit(1))}
DimLists == UNION {[1..k -> Dims] : k \in 1..MaxDims}
ArrGlobals ==
    <<Decl(TRUE, "int", <<SubDecl("n", None, Some(InitValExpr(Lit(2))))>>),
      Decl(FALSE, "int", <<SubDecl("dim", None, Some(InitValExpr(Lit(2))))>>)>>
ArrDecl(subs) == Decl(FALSE, "int", <<SubDecl("arr", Some(subs), None)>>)
ArrPrograms ==
    UNION {{DeclProgram(ArrGlobals \o <<ArrDecl(subs)>>, << >>),
            DeclProgram(ArrGlobals, <<ArrDecl(subs)>>),
            Program(ArrGlobals \o <<AstFunc("f", <<FuncParam("arr", Some(subs), "int")>>,
                                            "void", BlockStmt(<< >>))>>)} :
               subs \in DimLists}

(* Calls with array and pointer arguments: after the globals `int g[2];`   *)
(* and `int m[2][2];`, the function `void f(int a[], int p[][2])` declares *)
(* `int l[2];` and calls getarray, putarray or itself with whole arrays,   *)
(* rows of two-dimensional arrays, its parameters by their bare names, an  *)
(* element, or an array of the wrong shape.                                *)
ArrayOf(ident, sizes) ==
    Decl(FALSE, "int",
         <<SubDecl(ident, Some([i \in 1..Len(sizes) |-> Lit(sizes[i])]), None)>>)
Elem(ident, i) == LVal(ident, Some(<<Lit(i)>>))
RowArgs ==
    {Var("g"), Var("l"), Elem("m", 1), Var("a"), Elem("p", 0), Elem("g", 0), Var("m")}
MatArgs == {Var("m"), Var("p"), Var("g")}
Calls ==
    {CallExpr("getarray", <<x>>) : x \in RowArgs}
      \cup {CallExpr("putarray", <<Lit(1), x>>) : x \in RowArgs}
      \cup {CallExpr("f", <<x, y>>) : x \in RowArgs, y \in MatArgs}
CallProgram(call_expr) ==
    Program(<<ArrayOf("g", <<2>>), ArrayOf("m", <<2, 2>>),
              AstFunc("f", <<FuncParam("a", Some(<< >>), "int"),
                             FuncParam("p", Some(<<Lit(2)>>), "int")>>,
                      "void", BlockStmt(<<ArrayOf("l", <<2>>), ExprStmt(call_expr)>>))>>)
CallPrograms == {CallProgram(c) : c \in Calls}

(* A single function `int <name>() { return 0; }`, named main or like a    *)
(* function of the runtime library.                                        *)
FuncNames == {"main", "getint", "getch", "getarray", "putint", "putch", "putarray"}
NamedPrograms ==
    {Program(<<AstFunc(name, << >>, "int", BlockStmt(<<ReturnStmt(Some(Lit(0)))>>))>>) :
         name \in FuncNames}

(* Assignments and reads: after the globals `const int n = 2;`,            *)
(* `const int c[2] = {1, 2};` and `int x;`, main declares `const int k =   *)
(* 3;` and `const int d[2] = {1, 2};` and then assigns to, or reads, a      *)
(* const scalar, an element of a const array, the variable, or something   *)
(* that is no l-value.                                                     *)
ConstDecl(ident, subs, init_val) ==
    Decl(TRUE, "int", <<SubDecl(ident, subs, Some(init_val))>>)
AssignGlobals ==
    <<ConstDecl("n", None, InitValExpr(Lit(2))),
      ConstDecl("c", Some(<<Lit(2)>>), ArrayInit(<<1, 2>>)),
      IntDecl("x")>>
AssignLocals ==
    <<ConstDecl("k", None, InitValExpr(Lit(3))),
      ConstDecl("d", Some(<<Lit(2)>>), ArrayInit(<<1, 2>>))>>
Reads == {Var("n"), Var("k"), Elem("c", 1), Elem("d", 1), Var("x"), Lit(1)}
Targets ==
    {Var("n"), Var("k"), Elem("c", 0), Elem("d", 0), Var("x"),
     Lit(1), BinaryExpr("Add", Var("x"), Lit(1)), UnaryExpr("Neg", Var("x")),
     CallExpr("getint", << >>), AssignExpr(Var("x"), Lit(1))}
AssignPrograms ==
    {DeclProgram(AssignGlobals, AssignLocals \o <<ExprStmt(e)>>) :
         e \in Reads \cup {AssignExpr(lhs, rhs) : lhs \in Targets, rhs \in Reads}}

(* Array initializers: `int t[2][2] = {...};` as a global or as a local of  *)
(* main, the initializer of up to MaxInit items, each a row of up to       *)
(* MaxInit elements or a bare element.                                     *)
MaxInit == 3
InitRows ==
    {InitValExpr(Lit(1))}
      \cup {InitValArray([i \in 1..k |-> InitValExpr(Lit(1))]) : k \in 0..MaxInit}
InitTables == UNION {{InitValArray(rows) : rows \in [1..k -> InitRows]} : k \in 0..MaxInit}
TableDecl(init_val) ==
    Decl(FALSE, "int", <<SubDecl("t", Some(<<Lit(2), Lit(2)>>), Some(init_val))>>)
InitPrograms ==
    UNION {{DeclProgram(<<TableDecl(iv)>>, << >>), DeclProgram(<< >>, <<TableDecl(iv)>>)} :
              iv \in InitTables}

(* Subscripted l-values: after the globals `int g[2];` and `int m[2][2];`, *)
(* the function `int f(int a[], int p[][2], int s)` declares `int l[2];`   *)
(* and returns, reads or assigns an element of a parameter, of the local   *)
(* or of a global, by a constant or by a variable index, or reads a row.   *)
Elem2(ident, i, j) == LVal(ident, Some(<<Lit(i), Lit(j)>>))
Elems ==
    {Elem("a", 0), LVal("a", Some(<<Var("s")>>)), Elem2("p", 1, 0), Elem("g", 1),
     Elem("l", 0), LVal("l", Some(<<Var("s")>>)), Elem2("m", 1, 1)}
SubscriptStmts ==
    {ReturnStmt(Some(e)) : e \in Elems}
      \cup {ExprStmt(e) : e \in Elems \cup {Elem("m", 1), Elem("p", 1)}}
      \cup {ExprStmt(AssignExpr(e, Lit(1))) : e \in Elems}
SubscriptPrograms ==
    {Program(<<ArrayOf("g", <<2>>), ArrayOf("m", <<2, 2>>),
               AstFunc("f", <<FuncParam("a", Some(<< >>), "int"),
                              FuncParam("p", Some(<<Lit(2)>>), "int"),
                              FuncParam("s", None, "int")>>,
                       "int", BlockStmt(<<ArrayOf("l", <<2>>), stmt>>))>>) :
         stmt \in SubscriptStmts}

(* Structured statements of n nodes over an assignment and a return, under  *)
(* if, if/else, while and blocks, as the body of a void and of an int      *)
(* function.                                                               *)
MaxPlain == 4
Plain == ExprStmt(AssignExpr(Var("n"), Lit(2)))
RECURSIVE StmtsOver(_, _)
StmtsOver(leaves, n) ==
    IF n = 1 THEN leaves
    ELSE {IfStmt(Cond, s, None) : s \in StmtsOver(leaves, n - 1)}
           \cup {WhileStmt(Cond, s) : s \in StmtsOver(leaves, n - 1)}
           \cup UNION {{IfStmt(Cond, s1, Some(s2)) :
                            s1 \in StmtsOver(leaves, k),
                            s2 \in StmtsOver(leaves, n - 1 - k)} :
                       k \in 1..(n - 2)}
           \cup UNION {{BlockStmt(<<s1, s2>>) :
                            s1 \in StmtsOver(leaves, k),
                            s2 \in StmtsOver(leaves, n - 1 - k)} :
                       k \in 1..(n - 2)}
FlowProgram(ret_ty_ident, s) ==
    Program(<<AstFunc("f", <<FuncParam("n", None, "int")>>, ret_ty_ident, BlockStmt(<<s>>))>>)
FlowPrograms ==
    {FlowProgram("void", s) :
         s \in UNION {StmtsOver({Plain, ReturnStmt(None)}, k) : k \in 1..MaxPlain}}
      \cup {FlowProgram("int", s) :
         s \in UNION {StmtsOver({Plain, ReturnStmt(Some(Var("n")))}, k) : k \in 1..MaxPlain}}

(* Shadowing: in a block of its own, `int x = <init>;` or `int y = <init>;` *)
(* with an initializer that reads x, followed by an assignment from x,     *)
(* where x is already a global scalar, a global array, a parameter, a      *)
(* local of the enclosing block, or not declared at all.                   *)
ShadowInits == {Var("x"), BinaryExpr("Add", Var("x"), Lit(1)), Elem("x", 0)}
ShadowBlocks ==
    {BlockStmt(<<Decl(FALSE, "int", <<SubDecl(ident, None, Some(InitValExpr(init)))>>),
                 ExprStmt(AssignExpr(Var(ident), BinaryExpr("Add", Var("x"), Lit(1))))>>) :
         ident \in {"x", "y"}, init \in ShadowInits}
ShadowPrograms ==
    UNION {{Program(<<IntDecl("x"), AstFunc("f", << >>, "int", BlockStmt(<<b>>))>>),
            Program(<<Decl(FALSE, "int", <<SubDecl("x", Some(<<Lit(2)>>), None)>>),
                      AstFunc("f", << >>, "int", BlockStmt(<<b>>))>>),
            Program(<<AstFunc("f", <<FuncParam("x", None, "int")>>, "int",
                              BlockStmt(<<b>>))>>),
            Program(<<AstFunc("f", << >>, "int", BlockStmt(<<IntDecl("x"), b>>))>>),
            Program(<<AstFunc("f", << >>, "int", BlockStmt(<<b>>))>>)} :
           b \in ShadowBlocks}

(* Function names out of place: after `int g(int a, int b) { return a; }`  *)
(* and `int x;`, a statement of main that names a function without        *)
(* calling it, or calls one with fewer arguments than it has parameters.   *)
FuncUses ==
    {Var("g"), Var("getint"), Var("main"),
     AssignExpr(Var("x"), Var("g")),
     BinaryExpr("Add", Var("g"), Lit(1)),
     CallExpr("g", << >>), CallExpr("g", <<Lit(1)>>), CallExpr("g", <<Lit(1), Var("x")>>),
     CallExpr("putint", << >>), CallExpr("putint", <<Var("g")>>),
     AssignExpr(Var("x"), CallExpr("g", <<Var("x")>>))}
(* Assignments to the int x from a void call, from a comparison, folded or *)
(* not, from an assignment, and from an int.                               *)
MixedAssigns ==
    {AssignExpr(Var("x"), rhs) :
         rhs \in {CallExpr("putint", <<Lit(1)>>), BinaryExpr("Lt", Var("x"), Lit(2)),
                  BinaryExpr("Lt", Lit(1), Lit(2)), AssignExpr(Var("x"), Lit(1)),
                  CallExpr("getint", << >>), BinaryExpr("Add", Var("x"), Lit(2))}}
FuncUsePrograms ==
    {Program(<<IntDecl("x"),
               AstFunc("g", <<FuncParam("a", None, "int"), FuncParam("b", None, "int")>>,
                       "int", BlockStmt(<<ReturnStmt(Some(Var("a")))>>)),
               AstFunc("main", << >>, "int", BlockStmt(<<ExprStmt(e)>>))>>) :
         e \in FuncUses \cup MixedAssigns}

Programs ==
    FuncUsePrograms \cup ShadowPrograms \cup FlowPrograms \cup CfgPrograms \cup ExprPrograms \cup DeclPrograms \cup BinPrograms \cup ArrPrograms
      \cup CallPrograms \cup NamedPrograms \cup AssignPrograms \cup InitPrograms
      \cup SubscriptPrograms

-----------------------------------------------------------------------------
(* TypeChecker::new and IrBuilder::new on a parsed program. *)
Init ==
    /\ program \in Programs
    /\ phase = "tc_new"
    /\ kont = << >>
    /\ scopes = ScopeBuilder_new
    /\ cur_func_ret_ty = TyUnknown
    /\ tc_result = "new"
    /\ pass = 1
    /\ folded = None
    /\ ctx = Context_new
    /\ loop_targets = << >>
    /\ ib_result = "new"
    /\ overflow_checks = "unset"
    /\ call = [fn |-> "none"]

Next == TypeCheckerNext \/ IrBuilderNext

Spec == Init /\ [][Next]_vars

-----------------------------------------------------------------------------
(* Walks over the syntax tree (ast.rs), for the properties below.          *)

(* The expression nodes under an expression, itself first. *)
RECURSIVE ExprNodes(_)
RECURSIVE ExprNodesOf(_, _)
ExprNodesOf(exprs, i) ==
    IF i > Len(exprs) THEN << >> ELSE ExprNodes(exprs[i]) \o ExprNodesOf(exprs, i + 1)
ExprNodes(expr) ==
    <<expr>> \o
    CASE expr.e = "LVal" ->
           IF IsSome(expr.subs) THEN ExprNodesOf(Unwrap(expr.subs), 1) ELSE << >>
      [] expr.e = "Assign" -> ExprNodes(expr.lhs) \o ExprNodes(expr.rhs)
      [] expr.e = "Literal" ->
           IF expr.kind = "Array" THEN ExprNodesOf(expr.vals, 1) ELSE << >>
      [] expr.e = "Unary" -> ExprNodes(expr.sub_expr)
      [] expr.e = "Binary" -> ExprNodes(expr.lhs) \o ExprNodes(expr.rhs)
      [] expr.e = "Call" -> ExprNodesOf(expr.args, 1)

(* The expression nodes of an initializer, a declaration, a statement and  *)
(* a program.                                                              *)
RECURSIVE InitValNodes(_)
RECURSIVE InitValNodesOf(_, _)
InitValNodesOf(vals, i) ==
    IF i > Len(vals) THEN << >> ELSE InitValNodes(vals[i]) \o InitValNodesOf(vals, i + 1)
InitValNodes(init_val) ==
    CASE init_val.kind = "Expr" -> ExprNodes(init_val.expr)
      [] init_val.kind = "ArrayVal" -> InitValNodesOf(init_val.vals, 1)
      [] init_val.kind = "Const" -> ExprNodes(init_val.literal)
SubsNodes(subs) == IF IsSome(subs) THEN ExprNodesOf(Unwrap(subs), 1) ELSE << >>
RECURSIVE SubDeclNodesOf(_, _)
SubDeclNodesOf(sub_decls, i) ==
    IF i > Len(sub_decls) THEN << >>
    ELSE SubsNodes(sub_decls[i].subs)
           \o (IF IsSome(sub_decls[i].init_val)
               THEN InitValNodes(Unwrap(sub_decls[i].init_val)) ELSE << >>)
           \o SubDeclNodesOf(sub_decls, i + 1)
RECURSIVE StmtNodes(_)
RECURSIVE StmtNodesOf(_, _)
StmtNodesOf(items, i) ==
    IF i > Len(items) THEN << >> ELSE StmtNodes(items[i]) \o StmtNodesOf(items, i + 1)
StmtNodes(stmt) ==
    CASE stmt.node = "Decl" -> SubDeclNodesOf(stmt.sub_decls, 1)
      [] stmt.node = "Expr" -> ExprNodes(stmt.expr)
      [] stmt.node = "Block" -> StmtNodesOf(stmt.block_items, 1)
      [] stmt.node = "If" ->
           ExprNodes(stmt.cond) \o StmtNodes(stmt.then_block)
             \o (IF IsSome(stmt.else_block) THEN StmtNodes(Unwrap(stmt.else_block))
                 ELSE << >>)
      [] stmt.node = "While" -> ExprNodes(stmt.cond) \o StmtNodes(stmt.body)
      [] stmt.node = "Return" ->
           IF IsSome(stmt.val) THEN ExprNodes(Unwrap(stmt.val)) ELSE << >>
      [] stmt.node = "Func" ->
           SubDeclNodesOf([i \in 1..Len(stmt.params) |->
                              [subs |-> stmt.params[i].subs, init_val |-> None]], 1)
             \o StmtNodes(stmt.body)
      [] OTHER -> << >>
ProgramNodes(p) == StmtNodesOf(p.program_items, 1)

(* Two declarations of one name among the items of one block (or among    *)
(* the items of the program).                                              *)
DeclaresTwice(items) ==
    \E i \in 1..Len(items), k \in 1..Len(items) :
        /\ items[i].node = "Decl" /\ items[k].node = "Decl"
        /\ \E j \in 1..Len(items[i].sub_decls), m \in 1..Len(items[k].sub_decls) :
              /\ i # k \/ j # m
              /\ items[i].sub_decls[j].ident = items[k].sub_decls[m].ident
RECURSIVE BlockDeclaresTwice(_)
BlockDeclaresTwice(stmt) ==
    CASE stmt.node = "Block" ->
           \/ DeclaresTwice(stmt.block_items)
           \/ \E i \in 1..Len(stmt.block_items) : BlockDeclaresTwice(stmt.block_items[i])
      [] stmt.node = "If" ->
           \/ BlockDeclaresTwice(stmt.then_block)
           \/ IsSome(stmt.else_block) /\ BlockDeclaresTwice(Unwrap(stmt.else_block))
      [] stmt.node = "While" -> BlockDeclaresTwice(stmt.body)
      [] stmt.node = "Func" -> BlockDeclaresTwice(stmt.body)
      [] OTHER -> FALSE
BuiltInNames ==
    {TypeChecker_built_in_funcs[i].name : i \in 1..Len(TypeChecker_built_in_funcs)}
GlobalNamedLikeFunction(p) ==
    \E i \in 1..Len(p.program_items) :
        /\ p.program_items[i].node = "Decl"
        /\ \E j \in 1..Len(p.program_items[i].sub_decls) :
              p.program_items[i].sub_decls[j].ident \in BuiltInNames
HasDuplicateDecl(p) ==
    \/ DeclaresTwice(p.program_items)
    \/ GlobalNamedLikeFunction(p)
    \/ \E i \in 1..Len(p.program_items) : BlockDeclaresTwice(p.program_items[i])

(* The first run of the Type Checker returned Ok. *)
Accepted == pass = 1 /\ tc_result = "Ok"

(* C1: a program that declares one name twice in one block, or a global    *)
(* named like a registered function, is never accepted by the Type Checker. *)
C1_DuplicateRejected == Accepted => ~ HasDuplicateDecl(program)

(* C2: after the Type Checker returned Ok, no expression node of the tree  *)
(* has the type Unknown.                                                   *)
C2_NoUnknownType ==
    Accepted => \A i \in 1..Len(ProgramNodes(program)) :
                    ProgramNodes(program)[i].ty.t # "Unknown"

(* The parameter types of the callee of a call the Type Checker accepted:  *)
(* the registered functions are the built-in ones and the program's own.   *)
CalleeParamTys(p, name) ==
    IF name \in BuiltInNames
    THEN LET i == CHOOSE i \in 1..Len(TypeChecker_built_in_funcs) :
                      TypeChecker_built_in_funcs[i].name = name
         IN  TypeChecker_built_in_funcs[i].param_tys
    ELSE LET i == CHOOSE i \in 1..Len(p.program_items) :
                      /\ p.program_items[i].node = "Func"
                      /\ p.program_items[i].ident = name
         IN  [k \in 1..Len(p.program_items[i].params) |-> p.program_items[i].params[k].ty]
ArgsMatch(expr, param_tys) ==
    /\ Len(expr.args) = Len(param_tys)
    /\ \A i \in 1..Len(expr.args) : AstTy_eq(expr.args[i].ty, param_tys[i])

(* C3: every call of an accepted program has as many arguments as its      *)
(* callee has parameters, each of the parameter's type.                    *)
C3_CallsMatchSignature ==
    Accepted => \A i \in 1..Len(ProgramNodes(program)) :
                    ProgramNodes(program)[i].e = "Call" =>
                        ArgsMatch(ProgramNodes(program)[i],
                                  CalleeParamTys(program, ProgramNodes(program)[i].func))

(* C4: a second run of the Type Checker on the tree the first run accepted *)
(* returns Ok and leaves the tree as the first run left it.                *)
C4_FoldingIdempotent ==
    (pass = 2 /\ phase = "tc_done") => (tc_result = "Ok" /\ program = Unwrap(folded))

(* C5: visit_program never aborts: it returns Ok or a SemanticError. *)
C5_NeverAborts == pass = 1 => tc_result # "abort"

(* C6: the folded constant of a global array has the declared array type   *)
(* and as many elements as the declared dimension.                         *)
C6_ArrayInitPadded ==
    Accepted =>
        \A i \in 1..Len(program.program_items) :
            program.program_items[i].node = "Decl" =>
                \A j \in 1..Len(program.program_items[i].sub_decls) :
                    LET sub_decl == program.program_items[i].sub_decls[j] IN
                    (sub_decl.ty.t = "Array" /\ IsSome(sub_decl.init_val)) =>
                        /\ Unwrap(sub_decl.init_val).literal.ty = sub_decl.ty
                        /\ Len(Unwrap(sub_decl.init_val).literal.vals) = sub_decl.ty.siz

(* C7: every scalar constant of the scope table, global or local, carries  *)
(* its evaluated literal.                                                  *)
C7_ConstCarriesLiteral ==
    \A i \in 1..Len(scopes) : \A name \in DOMAIN scopes[i] :
        (scopes[i][name].is_const /\ scopes[i][name].ty.t = "Int") =>
            IsSome(scopes[i][name].const_val)

-----------------------------------------------------------------------------
(* The control-flow graph of a lowered function.                           *)
IsTerminator(inst) == inst.kind \in {"Br", "RetInst"}
BrTargets(inst) ==
    IF inst.kind # "Br" THEN {}
    ELSE IF inst.br = "Br" THEN {inst.true_bb, inst.false_bb} ELSE {inst.nxt_bb}
WellFormedBlock(func, bb) ==
    /\ Len(bb) >= 1
    /\ IsTerminator(func.insts[bb[Len(bb)]])
    /\ \A i \in 1..(Len(bb) - 1) : ~ IsTerminator(func.insts[bb[i]])
    /\ \A i \in 1..Len(bb) : BrTargets(func.insts[bb[i]]) \subseteq 1..Len(func.bbs)
WellFormedFunc(func) == \A b \in 1..Len(func.bbs) : WellFormedBlock(func, func.bbs[b])
(* The functions whose lowering has returned Ok: all of the module between *)
(* two program items, after the last one and after visit returned Ok.      *)
LoweredFuncs ==
    IF \/ phase = "ib" /\ kont # << >> /\ Top.op \in {"item", "program_end"}
       \/ phase = "ib_done" /\ ib_result = "Ok"
    THEN ctx.cur_module.funcs ELSE << >>

(* C8: in every function the IR Builder has lowered, every basic block has *)
(* exactly one terminator (branch, jump or return), it is the block's last *)
(* instruction, and every branch or jump target is a block of the function.*)
C8_BlocksWellFormed ==
    \A f \in 1..Len(LoweredFuncs) : WellFormedFunc(LoweredFuncs[f])

(* C8's case: a lowered function with a conditional branch, a jump and a   *)
(* return that is not the default one, over seven blocks or more.          *)
C8_Witness ==
    /\ phase = "ib_done" /\ ib_result = "Ok"
    /\ \E f \in 1..Len(ctx.cur_module.funcs) :
           LET func == ctx.cur_module.funcs[f] IN
           /\ Len(func.bbs) >= 7
           /\ \E i \in 1..Len(func.insts) :
                  func.insts[i].kind = "Br" /\ func.insts[i].br = "Br"
           /\ \E i \in 1..Len(func.insts) :
                  func.insts[i].kind = "Br" /\ func.insts[i].br = "Jump"
           /\ \E i \in 1..(Len(func.insts) - 1) : func.insts[i].kind = "RetInst"

(* The while statements that lexically enclose the statement at `path`,    *)
(* outermost first, each given by the length of its own path.              *)
RECURSIVE EnclosingWhiles(_, _, _)
EnclosingWhiles(node, path, len) ==
    IF path = << >> THEN << >>
    ELSE CASE node.node = "Func" -> EnclosingWhiles(node.body, Tail(path), len + 1)
           [] node.node = "While" ->
                <<len>> \o EnclosingWhiles(node.body, Tail(path), len + 1)
           [] node.node = "Block" ->
                EnclosingWhiles(node.block_items[path[2]], Tail(Tail(path)), len + 2)
           [] node.node = "If" ->
                IF Head(path) = "then_block"
                THEN EnclosingWhiles(node.then_block, Tail(path), len + 1)
                ELSE EnclosingWhiles(node.else_block[1], Tail(Tail(path)), len + 2)
           [] OTHER -> << >>
LexicalLoops(path) ==
    EnclosingWhiles(program.program_items[path[2]], SubSeq(path, 3, Len(path)), 2)

(* C9: the Type Checker accepts every break and continue; the IR Builder   *)
(* fails with BreakOutsideLoop (ContinueOutsideLoop) at a break (continue) *)
(* that no while of its function encloses, goes on at one that a while     *)
(* encloses, and reports these two errors at no other step.                *)
C9_OutsideLoop ==
    [][/\ (TC_AtStmt("Break") \/ TC_AtStmt("Continue"))
            => (tc_result' = "running" /\ phase' = "tc" /\ kont' = Tail(kont))
       /\ IB_AtStmt("Break")
            => ib_result' = (IF Len(LexicalLoops(Top.path)) = 0
                             THEN "BreakOutsideLoop" ELSE "running")
       /\ IB_AtStmt("Continue")
            => ib_result' = (IF Len(LexicalLoops(Top.path)) = 0
                             THEN "ContinueOutsideLoop" ELSE "running")
       /\ (ib_result' = "BreakOutsideLoop" /\ ib_result # "BreakOutsideLoop")
            => IB_AtStmt("Break")
       /\ (ib_result' = "ContinueOutsideLoop" /\ ib_result # "ContinueOutsideLoop")
            => IB_AtStmt("Continue")]_vars

(* C9's case: `{ while (c) if (c) break; break; }` was accepted by the     *)
(* Type Checker, the first break was lowered to a jump and the second made *)
(* the IR Builder fail.                                                    *)
C9_Witness ==
    /\ phase = "ib_done" /\ tc_result = "Ok" /\ ib_result = "BreakOutsideLoop"
    /\ Len(program.program_items) = 1
    /\ program.program_items[1].body.block_items[1].node = "Block"
    /\ program.program_items[1].body.block_items[1].block_items[1].node = "While"
    /\ program.program_items[1].body.block_items[1].block_items[1].body.node = "If"
    /\ program.program_items[1].body.block_items[1].block_items[2].node = "Break"
    /\ \E i \in 1..Len(ctx.cur_module.funcs[Len(ctx.cur_module.funcs)].insts) :
           LET inst == ctx.cur_module.funcs[Len(ctx.cur_module.funcs)].insts[i] IN
           inst.kind = "Br" /\ inst.br = "Jump"

(* The pending visit_while_stmt calls, outermost first, with their locals. *)
RECURSIVE Reverse(_)
Reverse(seq) == IF seq = << >> THEN << >> ELSE Reverse(Tail(seq)) \o <<Head(seq)>>
IsLoopFrame(frame) == frame.op = "while_end"
LoopFrames == Reverse(SelectSeq(kont, IsLoopFrame))
(* The last instruction of the builder's current block. *)
LastInstOfCur(cx) ==
    LET func == Context_cur_func(cx) IN
    IF func.bbs[cx.cur_bb] = << >> THEN [kind |-> "None"]
    ELSE func.insts[func.bbs[cx.cur_bb][Len(func.bbs[cx.cur_bb])]]

(* The loop-target stack mirrors the whiles that lexically enclose the     *)
(* statement being lowered: entry k is the (next, condition) pair of the   *)
(* k-th enclosing while.                                                   *)
LoopTargetsAreLexical ==
    (phase = "ib" /\ kont # << >> /\ Top.op = "stmt") =>
        /\ Len(loop_targets) = Len(LexicalLoops(Top.path))
        /\ Len(LoopFrames) = Len(LexicalLoops(Top.path))
        /\ \A k \in 1..Len(loop_targets) :
               k <= Len(LoopFrames) /\ k <= Len(LexicalLoops(Top.path)) =>
               /\ Len(LoopFrames[k].path) = LexicalLoops(Top.path)[k]
               /\ loop_targets[k] = BCTarget(LoopFrames[k].locals.nxt_bb,
                                             LoopFrames[k].locals.cond_bb)
(* The stack is empty where the lowering of a function starts and ends. *)
LoopTargetsEmptyAround ==
    /\ (phase = "ib" /\ kont # << >> /\ Top.op \in {"item", "func_end", "program_end"})
           => loop_targets = << >>
    /\ (phase = "ib_done" /\ ib_result = "Ok") => loop_targets = << >>
(* A break (continue) inside a loop closes the current block with a jump   *)
(* to the next (condition) block of the innermost while that lexically     *)
(* encloses it.                                                            *)
JumpsToInnermost ==
    /\ (IB_AtStmt("Break") /\ LexicalLoops(Top.path) # << >>)
           => /\ LoopFrames # << >>
              /\ Len(LoopFrames[Len(LoopFrames)].path)
                   = LexicalLoops(Top.path)[Len(LexicalLoops(Top.path))]
              /\ LastInstOfCur([ctx' EXCEPT !.cur_bb = ctx.cur_bb])
                   = Jump(LoopFrames[Len(LoopFrames)].locals.nxt_bb)
    /\ (IB_AtStmt("Continue") /\ LexicalLoops(Top.path) # << >>)
           => /\ LoopFrames # << >>
              /\ Len(LoopFrames[Len(LoopFrames)].path)
                   = LexicalLoops(Top.path)[Len(LexicalLoops(Top.path))]
              /\ LastInstOfCur([ctx' EXCEPT !.cur_bb = ctx.cur_bb])
                   = Jump(LoopFrames[Len(LoopFrames)].locals.cond_bb)

(* C10: under nested whiles a break jumps to the next block and a continue *)
(* to the condition block of the innermost lexically enclosing while, also *)
(* after an inner while of the same body has been lowered, and the         *)
(* loop-target stack is empty at the start and the end of every function's *)
(* lowering.                                                               *)
C10_InnermostLoop ==
    /\ [](LoopTargetsAreLexical /\ LoopTargetsEmptyAround)
    /\ [][JumpsToInnermost]_vars

(* C10's case: in `while (c) { while (c) break; break; }` the builder is   *)
(* at the second break, the inner while lowered and popped.                *)
C10_Witness ==
    /\ IB_AtStmt("Break")
    /\ Len(Top.path) = 8
    /\ Len(loop_targets) = 1
    /\ program.program_items[1].body.block_items[1].node = "While"
    /\ program.program_items[1].body.block_items[1].body.node = "Block"
    /\ program.program_items[1].body.block_items[1].body.block_items[1].node = "While"
    /\ program.program_items[1].body.block_items[1].body.block_items[1].body.node = "Break"
    /\ program.program_items[1].body.block_items[1].body.block_items[2].node = "Break"

-----------------------------------------------------------------------------
(* The Scope Table driven on its own (context.rs): any sequence of         *)
(* push_scope, pop_scope, insert and find_name_rec on a                    *)
(* ScopeBuilder<TyInfo>, up to MaxScopes open scopes.  `call` holds the    *)
(* last call and what it returned.                                         *)
MaxScopes == 3
ScopeNames == {"a", "b"}
ScopeValues == {TyInfo(TyInt, None, FALSE), TyInfo(TyInt, None, TRUE)}

(* The two visitors at rest. *)
VisitorsIdle ==
    /\ program = Program(<< >>)
    /\ kont = << >>
    /\ cur_func_ret_ty = TyUnknown
    /\ tc_result = "new"
    /\ pass = 1
    /\ folded = None
    /\ ctx = Context_new
    /\ loop_targets = << >>
    /\ ib_result = "new"
    /\ overflow_checks = "unset"
UnchangedVisitors ==
    UNCHANGED <<program, phase, kont, cur_func_ret_ty, tc_result, pass, folded, ctx,
                loop_targets, ib_result, overflow_checks>>

ScopeInit ==
    /\ scopes = ScopeBuilder_new
    /\ call = [fn |-> "new"]
    /\ phase = "scope_table"
    /\ VisitorsIdle

Scope_PushScope ==
    /\ Len(scopes) < MaxScopes
    /\ scopes' = push_scope(scopes)
    /\ call' = [fn |-> "push_scope"]
    /\ UnchangedVisitors

Scope_PopScope ==
    /\ scopes' = pop_scope(scopes)
    /\ call' = [fn |-> "pop_scope"]
    /\ UnchangedVisitors

(* insert: with no scope open, `expect("No scope found")` panics. *)
Scope_Insert ==
    /\ \E name \in ScopeNames, value \in ScopeValues :
           IF scopes = << >>
           THEN /\ call' = [fn |-> "insert", name |-> name, value |-> value,
                            res |-> "abort", ret |-> None]
                /\ UNCHANGED scopes
           ELSE LET inserted(r) ==
                        /\ scopes' = r.sb
                        /\ call' = [fn |-> "insert", name |-> name, value |-> value,
                                    res |-> "Ok",
                                    ret |-> IF r.ok THEN Some(value) ELSE None]
                IN  inserted(ScopeBuilder_insert(scopes, name, value))
    /\ UnchangedVisitors

Scope_FindNameRec ==
    /\ \E name \in ScopeNames :
           call' = [fn |-> "find_name_rec", name |-> name,
                    ret |-> find_name_rec(scopes, name)]
    /\ UNCHANGED scopes
    /\ UnchangedVisitors

ScopeNext == Scope_PushScope \/ Scope_PopScope \/ Scope_Insert \/ Scope_FindNameRec

ScopeSpec == ScopeInit /\ [][ScopeNext]_vars

(* C11: insert changes the innermost scope only.  If that scope binds the  *)
(* name already, insert returns None and every scope, the binding's value  *)
(* included, is as before; otherwise it returns the new binding and adds   *)
(* it to the innermost scope, whatever the outer scopes bind.              *)
C11_InsertInnermostOnly ==
    [][(call'.fn = "insert" /\ scopes # << >>) =>
          /\ call'.res = "Ok"
          /\ Len(scopes') = Len(scopes)
          /\ \A i \in 1..(Len(scopes) - 1) : scopes'[i] = scopes[i]
          /\ IF call'.name \in DOMAIN scopes[Len(scopes)]
             THEN /\ call'.ret = None
                  /\ scopes'[Len(scopes)] = scopes[Len(scopes)]
             ELSE /\ call'.ret = Some(call'.value)
                  /\ DOMAIN scopes'[Len(scopes)]
                       = DOMAIN scopes[Len(scopes)] \cup {call'.name}
                  /\ scopes'[Len(scopes)][call'.name] = call'.value
                  /\ \A m \in DOMAIN scopes[Len(scopes)] :
                         scopes'[Len(scopes)][m] = scopes[Len(scopes)][m]]_vars

(* C11's cases: an insert that succeeded under an outer binding of the     *)
(* same name with another value, in a table where a second insert of a     *)
(* name into one scope had failed before (the first value is kept).        *)
C11_Witness ==
    /\ call.fn = "insert" /\ call.res = "Ok" /\ IsSome(call.ret)
    /\ Len(scopes) = 2
    /\ call.name \in DOMAIN scopes[1]
    /\ scopes[1][call.name] # scopes[2][call.name]
    /\ scopes[2][call.name] = call.value

(* The binding of a name in the innermost scope that binds it. *)
InnermostBinding(sb, name) ==
    LET binds == {i \in 1..Len(sb) : name \in DOMAIN sb[i]}
    IN  IF binds = {} THEN None
        ELSE Some(sb[CHOOSE i \in binds : \A j \in binds : j <= i][name])

(* C12: after any sequence of push_scope, insert and pop_scope,            *)
(* find_name_rec returns the binding of the name in the innermost open     *)
(* scope that binds it, and None when no open scope binds it.              *)
C12_FindInnermost ==
    call.fn = "find_name_rec" => call.ret = InnermostBinding(scopes, call.name)

(* C12's case: a name bound in two open scopes with different values is    *)
(* found with the inner one.                                               *)
C12_Witness ==
    /\ call.fn = "find_name_rec"
    /\ Len(scopes) >= 2
    /\ call.name \in DOMAIN scopes[1]
    /\ call.name \in DOMAIN scopes[Len(scopes)]
    /\ scopes[1][call.name] # scopes[Len(scopes)][call.name]
    /\ call.ret = Some(scopes[Len(scopes)][call.name])

-----------------------------------------------------------------------------
(* Binary expressions.  The step of the Type Checker at an expression      *)
(* statement that is a binary expression, and what the visit of each       *)
(* operand returns on its own.                                             *)
AtBinaryExpr == TC_AtStmt("Expr") /\ TopNode.expr.e = "Binary" /\ pass = 1
LhsVisit == TypeChecker_visit_expr(scopes, TopNode.expr.lhs, TRUE)
RhsVisit == TypeChecker_visit_expr(scopes, TopNode.expr.rhs, TRUE)
OperandsOk ==
    /\ LhsVisit.res = "Ok" /\ RhsVisit.res = "Ok"
    /\ LhsVisit = TypeChecker_visit_expr(scopes, TopNode.expr.lhs, FALSE)
    /\ RhsVisit = TypeChecker_visit_expr(scopes, TopNode.expr.rhs, FALSE)
(* The type of an operand once visited: of its literal if it folded. *)
OperandTy(r) == IF IsSome(r.lit) THEN Unwrap(r.lit).ty ELSE r.expr.ty
BothFold == IsSome(LhsVisit.lit) /\ IsSome(RhsVisit.lit)
LegalCombination(lty, rty, op) ==
    \/ /\ lty.t = "Int" /\ rty.t = "Int"
       /\ op \in {"Add", "Sub", "Mul", "Div", "Mod", "Lt", "Le", "Gt", "Ge", "Eq", "Ne"}
    \/ /\ lty.t = "Bool" /\ rty.t = "Bool"
       /\ op \in {"And", "Or"}
ResultTy(op) ==
    IF op \in {"Add", "Sub", "Mul", "Div", "Mod"} THEN TyInt ELSE TyBool

(* C13: a binary expression whose operands were visited is accepted        *)
(* exactly when its operands are (Int, Int) with an arithmetic or          *)
(* comparison operator or (Bool, Bool) with And or Or, and fails with      *)
(* TypeMismatch otherwise; accepted, it has type Int for Add, Sub, Mul,    *)
(* Div, Mod and Bool for the others.                                       *)
C13_BinaryAccepted ==
    [][(AtBinaryExpr /\ OperandsOk) =>
          IF LegalCombination(OperandTy(LhsVisit), OperandTy(RhsVisit), TopNode.expr.op)
          THEN /\ tc_result' = "running"
               /\ NodeAt(program', Top.path).expr.ty = ResultTy(TopNode.expr.op)
          ELSE tc_result' = "TypeMismatch"]_vars

(* What does hold of the legality table: an illegal combination fails with *)
(* TypeMismatch, a legal one raises no semantic error, is accepted         *)
(* whenever an operand is not a constant, and once accepted is typed as    *)
(* above.  Only the folding of two constants can end the visit otherwise.  *)
BinaryLegalityUpToFolding ==
    [][(AtBinaryExpr /\ OperandsOk) =>
          IF LegalCombination(OperandTy(LhsVisit), OperandTy(RhsVisit), TopNode.expr.op)
          THEN /\ tc_result' \notin SemanticErrors
               /\ ~ BothFold => tc_result' = "running"
               /\ tc_result' = "running" =>
                      NodeAt(program', Top.path).expr.ty = ResultTy(TopNode.expr.op)
          ELSE tc_result' = "TypeMismatch"]_vars

(* `(x < 1) && (0 < 1)` was accepted with type Bool, its operands of type  *)
(* Bool.                                                                   *)
BoolOperandsAccepted ==
    /\ phase = "tc_done" /\ tc_result = "Ok" /\ pass = 1
    /\ Len(program.program_items) = 2
    /\ program.program_items[2].node = "Func"
    /\ Len(program.program_items[2].body.block_items) = 1
    /\ program.program_items[2].body.block_items[1].node = "Expr"
    /\ program.program_items[2].body.block_items[1].expr.e = "Binary"
    /\ program.program_items[2].body.block_items[1].expr.op = "And"
    /\ program.program_items[2].body.block_items[1].expr.ty = TyBool
    /\ program.program_items[2].body.block_items[1].expr.lhs.e = "Binary"
    /\ program.program_items[2].body.block_items[1].expr.lhs.ty = TyBool
    /\ program.program_items[2].body.block_items[1].expr.rhs.e = "Literal"
    /\ program.program_items[2].body.block_items[1].expr.rhs.ty = TyBool

-----------------------------------------------------------------------------
(* Folding of two integer literals, stated from 32-bit arithmetic.         *)
IntOperand(r) ==
    IsSome(r.lit) /\ Unwrap(r.lit).kind = "Integer" /\ Unwrap(r.lit).ty = TyInt
(* `l op r` does not overflow 32 bits.  Rust counts MinI32 % -1 as an      *)
(* overflow as it does MinI32 / -1 (checked_rem is None for both).         *)
FitsI32(op, l, r) ==
    CASE op = "Add" -> IF r >= 0 THEN l <= MaxI32 - r ELSE l >= MinI32 - r
      [] op = "Sub" -> IF r >= 0 THEN l >= MinI32 + r ELSE l <= MaxI32 + r
      [] op = "Mul" ->
            \/ l = 0 \/ r = 0
            \/ l = MinI32 /\ r = 1
            \/ r = MinI32 /\ l = 1
            \/ /\ l # MinI32 /\ r # MinI32
               /\ \/ Abs(l) <= MaxI32 \div Abs(r)
                  \/ /\ (l < 0) # (r < 0)
                     /\ MaxI32 % Abs(r) = Abs(r) - 1
                     /\ Abs(l) = (MaxI32 \div Abs(r)) + 1
      [] op = "Div" -> r # 0 /\ ~ (l = MinI32 /\ r = -1)
      [] op = "Mod" -> r # 0 /\ ~ (l = MinI32 /\ r = -1)
      [] OTHER -> TRUE
(* The remainder of l by r with the sign of l, and the truncated quotient. *)
Remainder(l, r) ==
    IF r = MinI32 THEN (IF l = MinI32 THEN 0 ELSE l)
    ELSE LET f == l % Abs(r)
         IN  IF l >= 0 \/ f = 0 THEN f ELSE f - Abs(r)
Quotient(l, r) ==
    IF r = MinI32 THEN (IF l = MinI32 THEN 1 ELSE 0)
    ELSE LET q == (l - Remainder(l, r)) \div Abs(r)
         IN  IF r < 0 THEN -q ELSE q
Arithmetic(op, l, r) ==
    CASE op = "Add" -> l + r
      [] op = "Sub" -> l - r
      [] op = "Mul" -> l * r
      [] op = "Div" -> Quotient(l, r)
      [] op = "Mod" -> Remainder(l, r)
      [] op = "Lt" -> IF l < r THEN 1 ELSE 0
      [] op = "Le" -> IF l <= r THEN 1 ELSE 0
      [] op = "Gt" -> IF l > r THEN 1 ELSE 0
      [] op = "Ge" -> IF l >= r THEN 1 ELSE 0
      [] op = "Eq" -> IF l = r THEN 1 ELSE 0
      [] op = "Ne" -> IF l # r THEN 1 ELSE 0
AtFoldable ==
    /\ AtBinaryExpr /\ OperandsOk
    /\ IntOperand(LhsVisit) /\ IntOperand(RhsVisit)
    /\ TopNode.expr.op \in {"Add", "Sub", "Mul", "Div", "Mod",
                            "Lt", "Le", "Gt", "Ge", "Eq", "Ne"}
    /\ FitsI32(TopNode.expr.op, Unwrap(LhsVisit.lit).val, Unwrap(RhsVisit.lit).val)

-----------------------------------------------------------------------------
(* Array subscripts.  The step that declares one array as a global or a    *)
(* local (not const and without an initializer, so that nothing but its    *)
(* subscripts can be at fault), or a function whose parameter has          *)
(* subscripts; the subscripts it declares, and what the visit of each      *)
(* returns on its own.                                                     *)
AtArrayDecl ==
    /\ phase = "tc" /\ kont # << >> /\ pass = 1
    /\ Top.op \in {"item", "stmt"} /\ TopNode.node = "Decl"
    /\ ~ TopNode.is_const
    /\ Len(TopNode.sub_decls) = 1
    /\ IsSome(TopNode.sub_decls[1].subs)
    /\ ~ IsSome(TopNode.sub_decls[1].init_val)
AtArrayParam ==
    /\ phase = "tc" /\ kont # << >> /\ pass = 1
    /\ Top.op = "item" /\ TopNode.node = "Func"
    /\ Len(TopNode.params) = 1
    /\ IsSome(TopNode.params[1].subs)
DeclaredSubs ==
    IF TopNode.node = "Func" THEN Unwrap(TopNode.params[1].subs)
    ELSE Unwrap(TopNode.sub_decls[1].subs)
SubVisit(i) == TypeChecker_visit_expr(scopes, DeclaredSubs[i], TRUE)
SubsVisited ==
    \A i \in DOMAIN DeclaredSubs :
        /\ SubVisit(i).res = "Ok"
        /\ SubVisit(i) = TypeChecker_visit_expr(scopes, DeclaredSubs[i], FALSE)
(* The subscripts that do not fold, or fold to an integer that is not a    *)
(* size.                                                                   *)
BadSubs ==
    {i \in DOMAIN DeclaredSubs :
        ~ IsSome(SubVisit(i).lit) \/ Unwrap(SubVisit(i).lit).val <= 0}
FirstBadSub == CHOOSE i \in BadSubs : \A j \in BadSubs : i <= j
RECURSIVE NestedArray(_)
NestedArray(sizes) ==
    IF sizes = << >> THEN TyInt
    ELSE TyArray(Head(sizes), NestedArray(Tail(sizes)))
FoldedSizes == [i \in DOMAIN DeclaredSubs |-> Unwrap(SubVisit(i).lit).val]

-----------------------------------------------------------------------------
(* AstTy's equality on its own: `==` applied to two types of a bounded     *)
(* universe, the visitors idle.  `call` holds the operands and the result. *)
MaxSiz == 2
BaseTys == {TyUnknown, TyVoid, TyInt, TyBool}
AstTys ==
    BaseTys
      \cup {TyPtr(b) : b \in BaseTys}
      \cup {TyArray(n, b) : n \in 1..MaxSiz, b \in BaseTys}
      \cup {TyFunc(r, << >>) : r \in BaseTys}
      \cup {TyFunc(r, <<p>>) : r \in BaseTys, p \in BaseTys}
AstTyInit ==
    /\ scopes = ScopeBuilder_new
    /\ call = [fn |-> "new"]
    /\ phase = "ast_ty"
    /\ VisitorsIdle
AstTy_Eq ==
    /\ phase = "ast_ty"
    /\ \E x \in AstTys, y \in AstTys :
          call' = [fn |-> "eq", x |-> x, y |-> y, ret |-> AstTy_eq(x, y)]
    /\ UNCHANGED scopes
    /\ UnchangedVisitors
AstTyNext == AstTy_Eq
AstTySpec == AstTyInit /\ [][AstTyNext]_vars

(* Structural equality, extended by Ptr(T) = Array{n, T} on equal element  *)
(* types.                                                                  *)
RECURSIVE SameType(_, _)
SameType(x, y) ==
    CASE x.t = "Func" /\ y.t = "Func" ->
           /\ SameType(x.ret_ty, y.ret_ty)
           /\ Len(x.param_tys) = Len(y.param_tys)
           /\ \A i \in 1..Len(x.param_tys) : SameType(x.param_tys[i], y.param_tys[i])
      [] x.t = "Array" /\ y.t = "Array" ->
           x.siz = y.siz /\ SameType(x.elem_ty, y.elem_ty)
      [] x.t \in {"Ptr", "Array"} /\ y.t \in {"Ptr", "Array"}
           /\ ~ (x.t = "Array" /\ y.t = "Array") ->
           SameType(x.elem_ty, y.elem_ty)
      [] OTHER -> x.t = y.t /\ x.t \in {"Unknown", "Void", "Int", "Bool"}

(* C16: `x == y` on two AstTy values is structural equality extended by    *)
(* Ptr(T) = Array{n, T}; in particular every value is equal to itself.     *)
C16_StructuralEquality ==
    call.fn = "eq" =>
        /\ call.ret = SameType(call.x, call.y)
        /\ call.x = call.y => call.ret

-----------------------------------------------------------------------------
(* Call arguments.  The step of the IR Builder at an expression statement  *)
(* that is a call and is lowered; the function after the step, the number  *)
(* of its instructions before it, and the Call it ends with.               *)
AtCallStmt == IB_AtStmt("Expr") /\ TopNode.expr.e = "Call" /\ ib_result' = ib_result
FuncAfter == Context_cur_func(ctx')
InstsBefore == Len(Context_cur_func(ctx).insts)
CallInst == FuncAfter.insts[Len(FuncAfter.insts)]
(* The operand a name is bound to. *)
NameOperand(ident) == Operand_from(Unwrap(find_name_rec(ctx.scope_builder, ident))).val
(* `addr` is the address of the l-value `arg`: the operand of its name, or *)
(* for an indexed one a GEP of this step on that operand, typed pointer to *)
(* the type of `arg`.                                                      *)
IsAddressOf(addr, arg) ==
    IF ~ IsSome(arg.subs) THEN addr = NameOperand(arg.ident)
    ELSE /\ addr.o = "Inst" /\ addr.id > InstsBefore
         /\ FuncAfter.insts[addr.id].kind = "GEP"
         /\ FuncAfter.insts[addr.id].ptr = NameOperand(arg.ident)
         /\ FuncAfter.insts[addr.id].ty = IrPtr(IrTy_from(arg.ty))

(* C17: the operand of an array-typed argument of a call is a GEP of       *)
(* indices [0, 0] on the argument's address, typed pointer to the array's  *)
(* element type; the lowering of the call loads no aggregate.              *)
C17_ArrayArgumentDecays ==
    [][AtCallStmt =>
          /\ CallInst.kind = "Call"
          /\ Len(CallInst.args) = Len(TopNode.expr.args)
          /\ \A i \in 1..Len(TopNode.expr.args) :
                TopNode.expr.args[i].ty.t = "Array" =>
                   /\ CallInst.args[i].o = "Inst"
                   /\ CallInst.args[i].id > InstsBefore
                   /\ FuncAfter.insts[CallInst.args[i].id].kind = "GEP"
                   /\ FuncAfter.insts[CallInst.args[i].id].indices = <<ConstZero, ConstZero>>
                   /\ FuncAfter.insts[CallInst.args[i].id].ty =
                          IrPtr(IrTy_from(TopNode.expr.args[i].ty.elem_ty))
                   /\ IsAddressOf(FuncAfter.insts[CallInst.args[i].id].ptr,
                                  TopNode.expr.args[i])
          /\ \A k \in (InstsBefore + 1)..Len(FuncAfter.insts) :
                FuncAfter.insts[k].kind = "Load" => FuncAfter.insts[k].ty.t # "Array"]_vars

(* C18: the operand of an argument that is the bare name of a pointer      *)
(* parameter is that parameter, and if every argument of the call is such  *)
(* a name the lowering emits the Call and nothing else.                    *)
C18_PointerParamPassedAsIs ==
    [][AtCallStmt =>
          /\ \A i \in 1..Len(TopNode.expr.args) :
                (TopNode.expr.args[i].e = "LVal" /\ ~ IsSome(TopNode.expr.args[i].subs)
                   /\ TopNode.expr.args[i].ty.t = "Ptr") =>
                      /\ NameOperand(TopNode.expr.args[i].ident).o = "Param"
                      /\ CallInst.args[i] = NameOperand(TopNode.expr.args[i].ident)
          /\ (\A i \in 1..Len(TopNode.expr.args) :
                 TopNode.expr.args[i].e = "LVal" /\ ~ IsSome(TopNode.expr.args[i].subs)
                   /\ TopNode.expr.args[i].ty.t = "Ptr") =>
                Len(FuncAfter.insts) = InstsBefore + 1]_vars

(* C17's case: a call was lowered whose argument is a row of the global    *)
(* `m`: a GEP of indices [0, 0], typed pointer to int, on the GEP that     *)
(* addresses the row.                                                      *)
C17_Witness ==
    /\ phase \in {"ib", "ib_done"}
    /\ ctx.cur_func \in DOMAIN ctx.cur_module.funcs
    /\ \E k \in DOMAIN Context_cur_func(ctx).insts :
          /\ Context_cur_func(ctx).insts[k].kind = "Call"
          /\ \E i \in DOMAIN Context_cur_func(ctx).insts[k].args :
                LET f == Context_cur_func(ctx)
                    arg == f.insts[k].args[i]
                IN  /\ arg.o = "Inst"
                    /\ f.insts[arg.id].kind = "GEP"
                    /\ f.insts[arg.id].indices = <<ConstZero, ConstZero>>
                    /\ f.insts[arg.id].ty = IrPtr(IrInt(32))
                    /\ f.insts[arg.id].ptr.o = "Inst"
                    /\ f.insts[f.insts[arg.id].ptr.id].kind = "GEP"
                    /\ f.insts[f.insts[arg.id].ptr.id].ptr = OperandGlobal(2)
                    /\ f.insts[f.insts[arg.id].ptr.id].ty = IrPtr(IrArray(2, IrInt(32)))

-----------------------------------------------------------------------------
(* The functions of the runtime library.                                   *)
SixBuiltins == {"getint", "getch", "getarray", "putint", "putch", "putarray"}
(* The context the IR Builder starts the program items with. *)
BuilderStart ==
    IrBuilder_push_built_in_funcs([Context_new EXCEPT !.scope_builder = push_scope(@)])
(* The IR signature registered under `name` in context cx. *)
IrSignature(cx, name) ==
    IrFuncTy(cx.cur_module.funcs[cx.scope_builder[1][name].id].ret_ty,
             cx.cur_module.funcs[cx.scope_builder[1][name].id].params)

(* C19: before any program item is visited, the global scope of the Type   *)
(* Checker and that of the IR Builder bind exactly getint, getch,          *)
(* getarray, putint, putch and putarray, each to a function, and the IR    *)
(* signature of each is the conversion of the Type Checker's; a function   *)
(* defined with one of these names is rejected with DuplicateName.         *)
C19_BuiltinsAgree ==
    /\ [][phase = "tc_new" =>
             /\ Len(scopes') = 1
             /\ DOMAIN scopes'[1] = SixBuiltins
             /\ \A name \in SixBuiltins :
                   /\ scopes'[1][name].ty.t = "Func"
                   /\ IrSignature(BuilderStart, name) = IrTy_from(scopes'[1][name].ty)]_vars
    /\ [][(phase = "tc_done" /\ phase' = "ib") =>
             /\ ctx' = BuilderStart
             /\ Len(ctx'.scope_builder) = 1
             /\ DOMAIN ctx'.scope_builder[1] = SixBuiltins
             /\ \A name \in SixBuiltins :
                   /\ ctx'.scope_builder[1][name].i = "Func"
                   /\ ctx'.cur_module.funcs[ctx'.scope_builder[1][name].id].name = name
                   /\ ctx'.cur_module.funcs[ctx'.scope_builder[1][name].id].is_builtin]_vars
    /\ [][(phase = "tc" /\ kont # << >> /\ Top.op = "item" /\ TopNode.node = "Func"
             /\ TopNode.ident \in SixBuiltins) =>
             tc_result' = "DuplicateName"]_vars

(* C19's case: `int putarray() { return 0; }` was rejected with            *)
(* DuplicateName, the global scope binding the six builtins.               *)
C19_Witness ==
    /\ tc_result = "DuplicateName"
    /\ Len(program.program_items) = 1
    /\ program.program_items[1].node = "Func"
    /\ program.program_items[1].ident = "putarray"
    /\ Len(scopes) = 1
    /\ DOMAIN scopes[1] = SixBuiltins
    /\ scopes[1]["putarray"].ty = TyFunc(TyInt, <<TyInt, TyPtr(TyInt)>>)

-----------------------------------------------------------------------------
(* Assignments.  The declarations of the program, global and in the body   *)
(* of a function, as written: name, constness, number of subscripts.       *)
DeclsIn(items) ==
    UNION {{[ident |-> items[i].sub_decls[j].ident,
             is_const |-> items[i].is_const,
             dims |-> IF IsSome(items[i].sub_decls[j].subs)
                      THEN Len(Unwrap(items[i].sub_decls[j].subs)) ELSE 0] :
               j \in 1..Len(items[i].sub_decls)} :
             i \in {i \in 1..Len(items) : items[i].node = "Decl"}}
AllDecls ==
    DeclsIn(program.program_items)
      \cup UNION {DeclsIn(program.program_items[i].body.block_items) :
                    i \in {i \in 1..Len(program.program_items) :
                              program.program_items[i].node = "Func"}}
(* `name` is declared, and declared const wherever it is declared. *)
NamesConst(name) ==
    /\ \E d \in AllDecls : d.ident = name
    /\ \A d \in AllDecls : d.ident = name => d.is_const
NamesVariable(name) ==
    /\ \E d \in AllDecls : d.ident = name
    /\ \A d \in AllDecls : d.ident = name => (~ d.is_const /\ d.dims = 0)
(* A read of a const symbol: its name, or an element by literal indices. *)
ConstRead(e) ==
    /\ e.e = "LVal"
    /\ NamesConst(e.ident)
    /\ IsSome(e.subs) =>
          /\ \A d \in AllDecls : d.ident = e.ident => Len(Unwrap(e.subs)) <= d.dims
          /\ \A i \in 1..Len(Unwrap(e.subs)) : Unwrap(e.subs)[i].e = "Literal"
AtExprStmt == TC_AtStmt("Expr") /\ pass = 1

(* C20: an assignment whose left-hand side names a const symbol (scalar or *)
(* array element, global or local) fails with CannotModifyConstValue; one  *)
(* whose left-hand side is no l-value fails with RequireLValue; a read of  *)
(* a const symbol, as a statement or as the right-hand side of an          *)
(* assignment to a variable, is accepted.                                  *)
C20_ConstNotAssignable ==
    [][AtExprStmt =>
          /\ (TopNode.expr.e = "Assign" /\ TopNode.expr.lhs.e = "LVal"
                 /\ NamesConst(TopNode.expr.lhs.ident)) =>
                tc_result' = "CannotModifyConstValue"
          /\ (TopNode.expr.e = "Assign" /\ TopNode.expr.lhs.e # "LVal") =>
                tc_result' = "RequireLValue"
          /\ ConstRead(TopNode.expr) => tc_result' = "running"
          /\ (TopNode.expr.e = "Assign" /\ TopNode.expr.lhs.e = "LVal"
                 /\ ~ IsSome(TopNode.expr.lhs.subs)
                 /\ NamesVariable(TopNode.expr.lhs.ident)
                 /\ ConstRead(TopNode.expr.rhs)) =>
                tc_result' = "running"]_vars

(* C20's case: `d[0] = n;` with the local const array d was rejected with  *)
(* CannotModifyConstValue.                                                 *)
C20_Witness ==
    /\ tc_result = "CannotModifyConstValue" /\ pass = 1
    /\ Len(program.program_items) = 4
    /\ program.program_items[4].node = "Func"
    /\ Len(program.program_items[4].body.block_items) = 3
    /\ program.program_items[4].body.block_items[2].is_const
    /\ program.program_items[4].body.block_items[2].sub_decls[1].ident = "d"
    /\ program.program_items[4].body.block_items[3].node = "Expr"
    /\ program.program_items[4].body.block_items[3].expr.e = "Assign"
    /\ program.program_items[4].body.block_items[3].expr.lhs.e = "LVal"
    /\ program.program_items[4].body.block_items[3].expr.lhs.ident = "d"
    /\ program.program_items[4].body.block_items[3].expr.rhs.e = "LVal"
    /\ program.program_items[4].body.block_items[3].expr.rhs.ident = "n"

-----------------------------------------------------------------------------
(* Array initializers.  The step that declares one array with an           *)
(* initializer, as a global or a local.                                    *)
AtInitializedArray ==
    /\ phase = "tc" /\ kont # << >> /\ pass = 1
    /\ Top.op \in {"item", "stmt"} /\ TopNode.node = "Decl"
    /\ Len(TopNode.sub_decls) = 1
    /\ IsSome(TopNode.sub_decls[1].subs)
    /\ IsSome(TopNode.sub_decls[1].init_val)
    /\ Unwrap(TopNode.sub_decls[1].init_val).kind = "ArrayVal"
(* The initializer has, at some nesting level, more elements than the      *)
(* dimension of that level.                                                *)
RECURSIVE Oversized(_, _)
Oversized(init_val, sizes) ==
    /\ init_val.kind = "ArrayVal"
    /\ sizes # << >>
    /\ \/ Len(init_val.vals) > Head(sizes)
       \/ \E i \in 1..Len(init_val.vals) : Oversized(init_val.vals[i], Tail(sizes))
(* The initializer is braced as the type is nested: an array of arrays     *)
(* down to the elements, which are integer literals.                       *)
RECURSIVE ShapedLike(_, _)
ShapedLike(init_val, sizes) ==
    IF sizes = << >>
    THEN init_val.kind = "Expr" /\ init_val.expr.e = "Literal"
    ELSE /\ init_val.kind = "ArrayVal"
         /\ \A i \in 1..Len(init_val.vals) : ShapedLike(init_val.vals[i], Tail(sizes))

-----------------------------------------------------------------------------
(* Subscripted l-values.  The step of the IR Builder at a return or an     *)
(* expression statement that lowers one subscripted l-value: returned,     *)
(* read, or assigned a literal; its subscripts literals or plain names.    *)
StepExpr ==
    IF TopNode.node = "Return"
    THEN (IF IsSome(TopNode.val) THEN Unwrap(TopNode.val) ELSE Lit(0))
    ELSE TopNode.expr
StepLVal == IF StepExpr.e = "Assign" THEN StepExpr.lhs ELSE StepExpr
AtSubscripted ==
    /\ phase = "ib" /\ kont # << >> /\ Top.op = "stmt"
    /\ TopNode.node \in {"Return", "Expr"}
    /\ StepExpr.e = "Assign" => StepExpr.rhs.e = "Literal"
    /\ StepLVal.e = "LVal"
    /\ IsSome(StepLVal.subs)
    /\ Unwrap(StepLVal.subs) # << >>
    /\ \A i \in DOMAIN Unwrap(StepLVal.subs) :
          \/ Unwrap(StepLVal.subs)[i].e = "Literal"
          \/ Unwrap(StepLVal.subs)[i].e = "LVal" /\ ~ IsSome(Unwrap(StepLVal.subs)[i].subs)
    /\ ib_result' = ib_result
(* The name is a parameter of the enclosing function, typed Ptr. *)
IsPtrParam(ident) ==
    \E k \in DOMAIN NodeAt(program, SubSeq(Top.path, 1, 2)).params :
        /\ NodeAt(program, SubSeq(Top.path, 1, 2)).params[k].ident = ident
        /\ NodeAt(program, SubSeq(Top.path, 1, 2)).params[k].ty.t = "Ptr"
NewInsts == (InstsBefore + 1)..Len(FuncAfter.insts)
NewGEPs == {k \in NewInsts : FuncAfter.insts[k].kind = "GEP"}
(* `op` is what the subscript `sub` lowers to: its constant, or a Load of  *)
(* this step.                                                              *)
IsIndexOf(op, sub) ==
    IF sub.e = "Literal" THEN op = OperandConst(ConstantInt(sub.val))
    ELSE op.o = "Inst" /\ op.id \in NewInsts /\ FuncAfter.insts[op.id].kind = "Load"

(* C22: a subscripted l-value lowers to one GEP on the operand its name is *)
(* bound to; that operand is a parameter exactly when the name is a        *)
(* pointer-typed parameter, and then the indices are the subscript         *)
(* operands alone, else the constant 0 followed by them; read as an Int,   *)
(* the element is loaded by one Load of the GEP.                           *)
C22_LeadingZeroIndex ==
    [][AtSubscripted =>
          /\ (NameOperand(StepLVal.ident).o = "Param") = IsPtrParam(StepLVal.ident)
          /\ Cardinality(NewGEPs) = 1
          /\ \A k \in NewGEPs :
                LET gep == FuncAfter.insts[k]
                    subs == Unwrap(StepLVal.subs)
                    lead == IF IsPtrParam(StepLVal.ident) THEN 0 ELSE 1
                IN  /\ gep.ptr = NameOperand(StepLVal.ident)
                    /\ Len(gep.indices) = Len(subs) + lead
                    /\ lead = 1 => gep.indices[1] = ConstZero
                    /\ \A i \in DOMAIN subs : IsIndexOf(gep.indices[i + lead], subs[i])
                    /\ (StepExpr.e = "LVal" /\ StepLVal.ty.t = "Int") =>
                          /\ k + 1 \in NewInsts
                          /\ FuncAfter.insts[k + 1] = Load(OperandInst(k), IrInt(32))
                          /\ Cardinality({j \in NewInsts :
                                             /\ FuncAfter.insts[j].kind = "Load"
                                             /\ FuncAfter.insts[j].addr = OperandInst(k)}) = 1]_vars

(* C22's case: `return a[0];` in `int f(int a[], ...)` was lowered to a    *)
(* GEP on the parameter with the single index 0, a Load of it and the      *)
(* return of the loaded value.                                             *)
C22_Witness ==
    /\ phase \in {"ib", "ib_done"}
    /\ ctx.cur_func \in DOMAIN ctx.cur_module.funcs
    /\ Len(Context_cur_func(ctx).params) = 3
    /\ Context_cur_func(ctx).params[1] = IrPtr(IrInt(32))
    /\ \E k \in DOMAIN Context_cur_func(ctx).insts :
          /\ k + 2 \in DOMAIN Context_cur_func(ctx).insts
          /\ Context_cur_func(ctx).insts[k] =
                GEP(OperandParam(1), <<ConstZero>>, IrPtr(IrInt(32)))
          /\ Context_cur_func(ctx).insts[k + 1] = Load(OperandInst(k), IrInt(32))
          /\ Context_cur_func(ctx).insts[k + 2] = RetInst(Some(OperandInst(k + 1)))

-----------------------------------------------------------------------------
(* The blocks of an if statement.                                          *)
FuncBefore == Context_cur_func(ctx)
LastOf(func, bb) ==
    IF func.bbs[bb] = << >> THEN [kind |-> "None"]
    ELSE func.insts[func.bbs[bb][Len(func.bbs[bb])]]
(* A statement without if, while, break, continue or return. *)
RECURSIVE NoControlFlow(_)
NoControlFlow(stmt) ==
    \/ stmt.node \in {"Expr", "Empty", "Decl"}
    \/ /\ stmt.node = "Block"
       /\ \A i \in DOMAIN stmt.block_items : NoControlFlow(stmt.block_items[i])
(* The step of visit_if_stmt that enters the then branch, and the step     *)
(* that returns from visit_if_stmt.                                        *)
AtIfOpen == IB_AtStmt("If") /\ Len(kont') > Len(kont)
AtIfClose ==
    /\ phase = "ib" /\ kont # << >>
    /\ \/ Top.op = "if_then_end" /\ ~ IsSome(TopNode.else_block)
       \/ Top.op = "if_else_end"

(* C23: an if creates its then block when it is entered, and a next block  *)
(* when it is left: the block the if started in ends with the conditional  *)
(* branch on the condition whose true target is the then block and whose   *)
(* false target is the next block (the else block when there is an else),  *)
(* the block each branch ends in ends with a jump to that one next block,  *)
(* and the cursor is left at the next block.  Without else and with a then *)
(* branch free of control-flow statements, the then block itself is where  *)
(* the branch ends and the if has added exactly the two blocks.            *)
C23_IfLowering ==
    /\ [][AtIfOpen =>
            /\ Len(FuncAfter.bbs) = Len(FuncBefore.bbs) + 1
            /\ ctx'.cur_bb = Len(FuncAfter.bbs)
            /\ kont'[2].op = "if_then_end"
            /\ kont'[2].locals.then_bb = Len(FuncAfter.bbs)
            /\ kont'[2].locals.old_bb = ctx.cur_bb
            /\ kont'[2].locals.cond = IrBuilder_visit_expr(ctx, TopNode.cond).val]_vars
    /\ [][AtIfClose =>
            LET l == Top.locals
                nxt == Len(FuncAfter.bbs)
                has_else == Top.op = "if_else_end"
                then_bb_end == IF has_else THEN l.then_bb_end ELSE ctx.cur_bb
            IN  /\ Len(FuncAfter.bbs) = Len(FuncBefore.bbs) + 1
                /\ ctx'.cur_bb = nxt
                /\ LastOf(FuncAfter, l.old_bb)
                     = Br(l.cond, l.then_bb, IF has_else THEN l.else_bb ELSE nxt)
                /\ LastOf(FuncAfter, then_bb_end) = Jump(nxt)
                /\ has_else => LastOf(FuncAfter, ctx.cur_bb) = Jump(nxt)
                /\ NoControlFlow(TopNode.then_block) =>
                      /\ then_bb_end = l.then_bb
                      /\ ~ has_else => Len(FuncAfter.bbs) = l.then_bb + 1]_vars
(* `void f(int n) { if (n < 1) n = 2; }` is lowered to three blocks. *)
C23_Witness ==
    /\ phase = "ib_done" /\ ib_result = "Ok"
    /\ LET f == Context_cur_func(ctx)
       IN  /\ Len(f.bbs) = 3
           /\ f.order = <<1, 2, 3>>
           /\ Len(f.bbs[2]) = 2 /\ f.insts[f.bbs[2][1]].kind = "Store"
           /\ f.bbs[3] # << >> /\ f.insts[f.bbs[3][1]] = RetInst(None)
           /\ LastOf(f, 1).kind = "Br" /\ LastOf(f, 1).br = "Br"
           /\ LastOf(f, 1).true_bb = 2 /\ LastOf(f, 1).false_bb = 3
           /\ LastOf(f, 2) = Jump(3)
           /\ ctx.cur_bb = 3

-----------------------------------------------------------------------------
(* The blocks of a while statement.                                        *)
PosOf(func, bb) == CHOOSE i \in 1..Len(func.order) : func.order[i] = bb
AtWhileOpen == IB_AtStmt("While") /\ Len(kont') > Len(kont)
AtWhileClose == phase = "ib" /\ kont # << >> /\ Top.op = "while_end"
(* The blocks created while the body of the while being left was lowered. *)
BodyBlocks == (Top.locals.nxt_bb + 1)..Len(FuncBefore.bbs)

(* Entering a while creates its condition, body and next blocks and moves  *)
(* the cursor to the body block; leaving it appends the jump to the        *)
(* condition block to the block the while started in, the conditional      *)
(* branch (body, next) to the condition block and the jump back to the     *)
(* condition block to the block the body ends in, and leaves the cursor at *)
(* the next block.                                                         *)
WhileBranches ==
    /\ [][AtWhileOpen =>
            /\ Len(FuncAfter.bbs) = Len(FuncBefore.bbs) + 3
            /\ kont'[2].op = "while_end"
            /\ kont'[2].locals.old_bb = ctx.cur_bb
            /\ kont'[2].locals.cond_bb = Len(FuncBefore.bbs) + 1
            /\ kont'[2].locals.loop_bb = Len(FuncBefore.bbs) + 2
            /\ kont'[2].locals.nxt_bb = Len(FuncBefore.bbs) + 3
            /\ ctx'.cur_bb = kont'[2].locals.loop_bb]_vars
    /\ [][AtWhileClose =>
            LET l == Top.locals
            IN  /\ Len(FuncAfter.bbs) = Len(FuncBefore.bbs)
                /\ LastOf(FuncAfter, l.old_bb) = Jump(l.cond_bb)
                /\ LastOf(FuncAfter, l.cond_bb) = Br(l.cond, l.loop_bb, l.nxt_bb)
                /\ LastOf(FuncAfter, ctx.cur_bb) = Jump(l.cond_bb)
                /\ ctx'.cur_bb = l.nxt_bb]_vars
(* In the function's block order the condition block comes first, then the *)
(* body block and every block created while the body was lowered, then the *)
(* next block.                                                             *)
WhileBlockOrder ==
    [][AtWhileClose =>
          LET l == Top.locals
          IN  /\ PosOf(FuncAfter, l.cond_bb) < PosOf(FuncAfter, l.loop_bb)
              /\ PosOf(FuncAfter, l.loop_bb) < PosOf(FuncAfter, l.nxt_bb)
              /\ \A b \in BodyBlocks :
                    /\ PosOf(FuncAfter, l.loop_bb) < PosOf(FuncAfter, b)
                    /\ PosOf(FuncAfter, b) < PosOf(FuncAfter, l.nxt_bb)]_vars

(* C24: a while creates a condition, a body and a next block that appear   *)
(* in the function's block order as condition, body (with every block      *)
(* created while the body is lowered), next; the preceding block ends with *)
(* a jump to the condition block, the condition block with the conditional *)
(* branch (body, next), the block the body's lowering ends in with a jump  *)
(* back to the condition block, and the cursor is left at the next block.  *)
C24_WhileLowering == WhileBranches /\ WhileBlockOrder

-----------------------------------------------------------------------------
(* The default return of a function.                                       *)
AtFuncEnd == phase = "ib" /\ kont # << >> /\ Top.op = "func_end"
EndsWithReturn(items) == items # << >> /\ items[Len(items)].node = "Return"

(* C25: once the body of a defined function is lowered, one return         *)
(* instruction is appended to the block the cursor is in, and nothing else *)
(* changes in the function: a return without value for a void function,   *)
(* a return of the constant 0 for an int function.  When the body's last   *)
(* statement is a return, the cursor is in the continuation block opened   *)
(* after that return, and the appended return is its only instruction.     *)
C25_ImplicitReturn ==
    [][AtFuncEnd =>
          LET void == TopNode.ret_ty_ident = "void"
              id == Len(FuncBefore.insts) + 1
              p == PosOf(FuncBefore, ctx.cur_bb)
          IN  /\ FuncBefore.ret_ty = (IF void THEN IrVoid ELSE IrInt(32))
              /\ FuncAfter.insts
                   = Append(FuncBefore.insts,
                            RetInst(IF void THEN None ELSE Some(ConstZero)))
              /\ FuncAfter.bbs = [FuncBefore.bbs EXCEPT ![ctx.cur_bb] = Append(@, id)]
              /\ FuncAfter.order = FuncBefore.order
              /\ ctx'.cur_bb = ctx.cur_bb /\ ctx'.cur_func = ctx.cur_func
              /\ EndsWithReturn(TopNode.body.block_items) =>
                    /\ FuncAfter.bbs[ctx.cur_bb] = <<id>>
                    /\ ctx.cur_bb = Len(FuncBefore.bbs)
                    /\ p > 1
                    /\ LastOf(FuncBefore, FuncBefore.order[p - 1]).kind = "RetInst"]_vars
(* An int function whose body is one return of a value: the entry block    *)
(* ends with that return, the second block holds only `ret 0`.             *)
C25_Witness ==
    /\ phase = "ib_done" /\ ib_result = "Ok"
    /\ LET f == Context_cur_func(ctx)
       IN  /\ f.ret_ty = IrInt(32)
           /\ f.order = <<1, 2>>
           /\ LastOf(f, 1).kind = "RetInst" /\ LastOf(f, 1).val # None
           /\ f.bbs[2] # << >>
           /\ f.insts[f.bbs[2][1]] = RetInst(Some(ConstZero))
           /\ Len(f.bbs[2]) = 1

-----------------------------------------------------------------------------
(* The scope stack along the traversal.                                    *)
(* The number of block statements that enclose the place `path` leads to,  *)
(* from `node` on.                                                         *)
RECURSIVE EnclosingBlocks(_, _)
EnclosingBlocks(node, path) ==
    IF path = << >> THEN 0
    ELSE CASE node.node = "Func" -> EnclosingBlocks(node.body, Tail(path))
           [] node.node = "While" -> EnclosingBlocks(node.body, Tail(path))
           [] node.node = "Block" ->
                1 + EnclosingBlocks(node.block_items[path[2]], Tail(Tail(path)))
           [] node.node = "If" ->
                IF Head(path) = "then_block"
                THEN EnclosingBlocks(node.then_block, Tail(path))
                ELSE EnclosingBlocks(node.else_block[1], Tail(Tail(path)))
           [] OTHER -> 0
BlockDepth(path) ==
    EnclosingBlocks(program.program_items[path[2]], SubSeq(path, 3, Len(path)))
ParamNames(path) ==
    {program.program_items[path[2]].params[i].ident :
         i \in DOMAIN program.program_items[path[2]].params}
(* The stack while a statement at depth d of a function is visited: the    *)
(* global scope with the function's name, the scope of its parameters, and *)
(* d block scopes.                                                         *)
StackAtStmt(sb, path) ==
    /\ Len(sb) = 2 + BlockDepth(path)
    /\ program.program_items[path[2]].ident \in DOMAIN sb[1]
    /\ DOMAIN sb[2] = ParamNames(path)
BetweenItems == kont # << >> /\ Top.op \in {"item", "program_end"}

(* C26: in both phases, while a statement at block-nesting depth d of a    *)
(* function body is visited the scope stack holds exactly the global       *)
(* scope, the function's parameter scope and d block scopes; between two   *)
(* program items, so after each function visited successfully, only the    *)
(* global scope is left; after visit_program returned Ok the stack is      *)
(* empty.                                                                  *)
C26_ScopesPaired ==
    /\ (phase = "tc" /\ kont # << >> /\ Top.op = "stmt") => StackAtStmt(scopes, Top.path)
    /\ (phase = "ib" /\ kont # << >> /\ Top.op = "stmt") =>
          StackAtStmt(ctx.scope_builder, Top.path)
    /\ (phase = "tc" /\ BetweenItems) => Len(scopes) = 1
    /\ (phase = "ib" /\ BetweenItems) => Len(ctx.scope_builder) = 1
    /\ (phase = "tc_done" /\ tc_result = "Ok") => scopes = << >>
    /\ (phase = "ib_done" /\ ib_result = "Ok") => ctx.scope_builder = << >>
(* A statement inside three nested blocks is lowered under five scopes. *)
C26_Witness ==
    /\ phase = "ib" /\ kont # << >> /\ Top.op = "stmt"
    /\ BlockDepth(Top.path) = 3
    /\ Len(ctx.scope_builder) = 5

-----------------------------------------------------------------------------
(* The declaration a name resolves to, in both phases.                     *)
AtLocalInit(ph) ==
    /\ phase = ph /\ kont # << >> /\ Top.op = "stmt" /\ TopNode.node = "Decl"
    /\ Len(TopNode.sub_decls) = 1
    /\ ~ IsSome(TopNode.sub_decls[1].subs)
    /\ IsSome(TopNode.sub_decls[1].init_val)
    /\ Unwrap(TopNode.sub_decls[1].init_val).kind = "Expr"
StepInit == Unwrap(TopNode.sub_decls[1].init_val).expr
(* The l-values of an expression, and the names they use. *)
Uses(expr) ==
    {ExprNodes(expr)[i] : i \in {j \in DOMAIN ExprNodes(expr) : ExprNodes(expr)[j].e = "LVal"}}
UsedNames(expr) == {u.ident : u \in Uses(expr)}
(* The addresses this step reads from: of its loads, unless the address is *)
(* a GEP of this step, and the bases of its GEPs.                          *)
ReadAddrs ==
    {FuncAfter.insts[k].addr :
         k \in {j \in NewInsts : /\ FuncAfter.insts[j].kind = "Load"
                                 /\ ~ (/\ FuncAfter.insts[j].addr.o = "Inst"
                                       /\ FuncAfter.insts[j].addr.id \in NewGEPs)}}
      \cup {FuncAfter.insts[k].ptr : k \in NewGEPs}

(* The Type Checker resolves the names of a local declaration's            *)
(* initializer in the scopes as they are before the declaration: a name    *)
(* they do not hold is an UnknownName, also when it is the declared name,  *)
(* and each use that stays in the tree is typed from the declaration they  *)
(* hold.                                                                   *)
CheckerResolvesOuter ==
    [][(AtLocalInit("tc") /\ pass = 1) =>
          /\ (\E n \in UsedNames(StepInit) : ~ IsSome(find_name_rec(scopes, n))) =>
                tc_result' = "UnknownName"
          /\ phase' = "tc" =>
                LET init_val == Unwrap(NodeAt(program', Top.path).sub_decls[1].init_val)
                IN  init_val.kind = "Expr" =>
                       \A u \in Uses(init_val.expr) :
                           LET outer == Unwrap(find_name_rec(scopes, u.ident)).ty
                           IN  IF IsSome(u.subs) THEN outer.t \in {"Array", "Ptr"}
                               ELSE u.ty = outer]_vars
(* The IR Builder reads the names of a local declaration's initializer at  *)
(* the addresses they are bound to before the declaration.                 *)
BuilderResolvesOuter ==
    [][(AtLocalInit("ib") /\ phase' = "ib") =>
          ReadAddrs \subseteq {NameOperand(n) : n \in UsedNames(StepInit)}]_vars

(* C27: the IR Builder resolves each use of a name to the declaration the  *)
(* Type Checker resolved it to; in the initializer of a local declaration  *)
(* of the same name, `int x = x + 1;` in a block nested in a scope that    *)
(* declares x, both pick the outer declaration.                            *)
C27_SameDeclaration == CheckerResolvesOuter /\ BuilderResolvesOuter

-----------------------------------------------------------------------------
(* C28: on every program the Type Checker accepted, IrBuilder::visit       *)
(* returns Ok, BreakOutsideLoop or ContinueOutsideLoop: it never ends in   *)
(* an internal abort (an unreachable! or a failed unwrap).                 *)
C28_BuilderNeverAborts ==
    phase = "ib_done" => ib_result \in {"Ok", "BreakOutsideLoop", "ContinueOutsideLoop"}

-----------------------------------------------------------------------------
(* Logical not.                                                            *)
AtNot(ph) ==
    /\ phase = ph /\ kont # << >> /\ Top.op = "stmt" /\ TopNode.node = "Expr"
    /\ TopNode.expr.e = "Unary" /\ TopNode.expr.op = "Not"
NotOperand == TypeChecker_visit_expr(scopes, TopNode.expr.sub_expr, TRUE)
LogicalNot(c) == IF c = 0 THEN 1 ELSE 0
(* What a comparison instruction computes on the integers l and r. *)
CmpValue(op, l, r) ==
    CASE op = "Eq" -> IF l = r THEN 1 ELSE 0
      [] op = "Ne" -> IF l # r THEN 1 ELSE 0
      [] op = "Lt" -> IF l < r THEN 1 ELSE 0
      [] op = "Le" -> IF l <= r THEN 1 ELSE 0
      [] op = "Gt" -> IF l > r THEN 1 ELSE 0
      [] op = "Ge" -> IF l >= r THEN 1 ELSE 0
Samples == {-MaxI32, -1, 0, 1, 2, MaxI32}

(* C29: `!e` on an operand that folds to the constant c folds to 1 when c  *)
(* is 0 and to 0 when c is not 0, with the type of the operand; on an      *)
(* operand that is no constant the IR Builder ends with a comparison of    *)
(* the operand's value with 0 that computes the same function.             *)
C29_LogicalNot ==
    /\ [][(/\ AtNot("tc") /\ pass = 1
           /\ NotOperand.res = "Ok" /\ IsSome(NotOperand.lit)
           /\ Unwrap(NotOperand.lit).kind = "Integer") =>
             \A oc \in BOOLEAN :
                 /\ TypeChecker_visit_expr(scopes, TopNode.expr, oc).res = "Ok"
                 /\ TypeChecker_visit_expr(scopes, TopNode.expr, oc).lit =
                       Some(LiteralInteger(LogicalNot(Unwrap(NotOperand.lit).val),
                                           Unwrap(NotOperand.lit).ty))]_vars
    /\ [][(AtNot("ib") /\ phase' = "ib" /\ TopNode.expr.sub_expr.e # "Literal") =>
             LET inst == FuncAfter.insts[Len(FuncAfter.insts)]
             IN  /\ Len(FuncAfter.insts) > InstsBefore
                 /\ inst.kind = "Binary"
                 /\ inst.right = ConstZero
                 /\ \A v \in Samples : CmpValue(inst.op, v, 0) = LogicalNot(v)]_vars

-----------------------------------------------------------------------------
(* The types of an assignment.                                             *)
AtAssign == TC_AtStmt("Expr") /\ pass = 1 /\ TopNode.expr.e = "Assign"
AssignLhs == TypeChecker_visit_lexpr(scopes, TopNode.expr.lhs, TRUE, TRUE)
AssignRhs == TypeChecker_visit_expr(scopes, TopNode.expr.rhs, TRUE)
RhsTy == IF IsSome(AssignRhs.lit) THEN Unwrap(AssignRhs.lit).ty ELSE AssignRhs.expr.ty

(* C30: an assignment whose two sides are accepted on their own is         *)
(* accepted only when the type of the right-hand side equals the type the  *)
(* left-hand side resolved to; a Void or Bool right-hand side assigned to  *)
(* an Int variable fails with TypeMismatch.                                *)
C30_AssignTypesEqual ==
    [][(AtAssign /\ AssignLhs.res = "Ok" /\ AssignRhs.res = "Ok") =>
          /\ tc_result' = "running" => SameType(RhsTy, AssignLhs.expr.ty)
          /\ (AssignLhs.expr.ty.t = "Int" /\ RhsTy.t \in {"Void", "Bool"}) =>
                tc_result' = "TypeMismatch"]_vars

====
